---- MODULE Spec2Model ----
(***************************************************************************)
(* Change-detection engine of the listing monitor: DiffEngine,             *)
(* CanonicalListing, StateStore, Scheduler poll tasks, NotificationService *)
(* and PollingTarget.calculateAdaptiveInterval, modelled from the          *)
(* JavaScript sources.                                                     *)
(*                                                                         *)
(* JavaScript values are tagged pairs <<tag, payload>>:                    *)
(*   <<"num", n>>  a number, <<"str", s>> a string (s a sequence of        *)
(*   one-character strings), <<"null", 0>> null / SQL NULL,                *)
(*   <<"undefined", 0>> undefined / a missing property.                    *)
(* Fractions (significance, confidence) are exact pairs <<n, d>>, d > 0.   *)
(***************************************************************************)
EXTENDS Integers, Sequences, FiniteSets, TLC

VARIABLES
    now,          \* wall clock, in model time units
    listings,     \* SQLite table listings: listing_id -> row (partial function)
    cache,        \* Redis keys listing:<id> -> cached listing JSON (partial function)
    events,       \* SQLite table events (the outbox), in insertion order
    targets,      \* SQLite table polling_targets: id -> runtime state
    activePolls,  \* Scheduler.activePolls (keys)
    rateLimiters, \* Scheduler.rateLimiters: domain -> request timestamps
    task,         \* per worker (a pollTarget invocation per target, and the
                  \* runReconciliation invocation): its position and locals
    faults,       \* number of injected I/O failures so far
    polls,        \* number of polls and reconciliation visits started so far
    lastOk,       \* history: listings returned to the last successful poll of a target
    pass,         \* processPendingEvents invocations: position, batch
    accepting,    \* subscriber -> whether its endpoint currently answers 2xx
    delivered,    \* history: per subscriber, the event ids it answered 2xx to
    ivIn,         \* input of calculateAdaptiveInterval under SpecInterval
    ivOut,        \* its result
    dfIn,         \* snapshot given to the DiffEngine round trip under SpecDiff
    dfOut,        \* its result
    breaker,      \* a CircuitBreaker object: failures, state, nextAttempt, successCount
    calls,        \* execute calls on it: per caller, whether its wrapped call is running
    cbHist,       \* history: failed calls since the last successful one, calls made
    pollingQueue, \* Scheduler.pollingQueue (target objects queued by a tick)
    pollStart,    \* Scheduler.activePolls values: target id -> startTime
    rlLog,        \* history: checkRateLimit calls as <<time, allowed>>
    wh,           \* a webhook delivery: event, secret, body sent, digests
    life,         \* Scheduler.isRunning, the process, a tick at its await, stop()
    storeOps,     \* StateStore.getListing / saveListing calls in flight, per caller
    monitor,      \* monitoring-service: monitoringJobs, armed timers, checks in flight
    admin         \* removePollingTarget / updatePollingTarget: the call in flight, history

engineVars == <<now, listings, cache, events, targets, activePolls, rateLimiters,
                task, faults, polls, lastOk>>
dispVars == <<pass, accepting, delivered>>
ivVars == <<ivIn, ivOut>>
dfVars == <<dfIn, dfOut>>
cbVars == <<breaker, calls, cbHist>>
schedVars == <<pollingQueue, pollStart>>
extVars == <<cbVars, schedVars, rlLog, wh, life, storeOps, monitor, admin>>
vars == <<now, listings, cache, events, targets, activePolls, rateLimiters, task,
          faults, polls, lastOk, pass, accepting, delivered,
          ivIn, ivOut, dfIn, dfOut, breaker, calls, cbHist, pollingQueue, pollStart,
          rlLog, wh, life, storeOps, monitor, admin>>

\* the variables of the specifications that do not use them
BreakerUnused == breaker = <<>> /\ calls = <<>> /\ cbHist = <<>>
SchedUnused == pollingQueue = <<>> /\ pollStart = <<>>
LegacyUnused == storeOps = <<>> /\ monitor = <<>> /\ admin = <<>>
ExtUnused == BreakerUnused /\ SchedUnused /\ rlLog = <<>> /\ wh = <<>> /\ life = <<>> /\ LegacyUnused

----------------------------------------------------------------------------
(* JavaScript values *)

Num(n) == <<"num", n>>
Str(s) == <<"str", s>>
Null == <<"null", 0>>
Undefined == <<"undefined", 0>>

IsNum(v) == v[1] = "num"
IsStr(v) == v[1] = "str"
IsNullish(v) == v[1] \in {"null", "undefined"}

\* JavaScript truthiness, as used by `a || b`
Truthy(v) ==
    CASE IsNullish(v) -> FALSE
      [] IsNum(v) -> v[2] # 0
      [] IsStr(v) -> Len(v[2]) > 0
      [] OTHER -> TRUE

\* a || b
OrElse(a, b) == IF Truthy(a) THEN a ELSE b

\* a === b (null and undefined are different values)
StrictEq(a, b) == a[1] = b[1] /\ (IsNullish(a) \/ a[2] = b[2])

----------------------------------------------------------------------------
(* Exact fractions *)

RLeq(a, b) == a[1] * b[2] <= b[1] * a[2]
RLt(a, b) == a[1] * b[2] < b[1] * a[2]
RMin(a, b) == IF RLeq(a, b) THEN a ELSE b
RMax(a, b) == IF RLeq(a, b) THEN b ELSE a
RAdd(a, b) == <<a[1] * b[2] + b[1] * a[2], a[2] * b[2]>>
RMul(a, b) == <<a[1] * b[1], a[2] * b[2]>>
REq(a, b) == a[1] * b[2] = b[1] * a[2]
Abs(n) == IF n < 0 THEN -n ELSE n

\* Math.round of a non-negative fraction: floor(x + 1/2)
Round(a) == (2 * a[1] + a[2]) \div (2 * a[2])

----------------------------------------------------------------------------
(* DiffEngine: field comparison *)

TrackedFields == <<"title", "price", "condition", "location">>

\* config.minSignificance default
MinSignificance == <<1, 10>>

IsSpace(c) == c = " "
IsWordChar(c) == c \in {"a", "b", "c", "A", "B", "C", "1", "4", "_"}

\* String.prototype.toLowerCase, per character
LowerChar(c) == CASE c = "A" -> "a" [] c = "B" -> "b" [] c = "C" -> "c" [] OTHER -> c

RECURSIVE TrimLeft(_)
TrimLeft(s) == IF s # <<>> /\ IsSpace(Head(s)) THEN TrimLeft(Tail(s)) ELSE s

RECURSIVE TrimRight(_)
TrimRight(s) ==
    IF s # <<>> /\ IsSpace(s[Len(s)]) THEN TrimRight(SubSeq(s, 1, Len(s) - 1)) ELSE s

\* replace(/\s+/g, ' ')
RECURSIVE CollapseSpaces(_)
CollapseSpaces(s) ==
    IF Len(s) < 2 THEN s
    ELSE IF IsSpace(s[1]) /\ IsSpace(s[2]) THEN CollapseSpaces(Tail(s))
    ELSE <<s[1]>> \o CollapseSpaces(Tail(s))

\* replace(/[^\w\s]/g, '')
StripSpecial(s) == SelectSeq(s, LAMBDA c : IsWordChar(c) \/ IsSpace(c))

normalizeString(s) ==
    StripSpecial(CollapseSpaces(TrimRight(TrimLeft([i \in 1..Len(s) |-> LowerChar(s[i])]))))

\* String.prototype.split(' ')
RECURSIVE SplitFrom(_, _)
SplitFrom(s, cur) ==
    IF s = <<>> THEN <<cur>>
    ELSE IF IsSpace(Head(s)) THEN <<cur>> \o SplitFrom(Tail(s), <<>>)
    ELSE SplitFrom(Tail(s), Append(cur, Head(s)))

SeqIncludes(s, x) == \E i \in 1..Len(s) : s[i] = x

calculateSemanticSimilarity(str1, str2) ==
    LET words1 == SplitFrom(normalizeString(str1), <<>>)
        words2 == SplitFrom(normalizeString(str2), <<>>)
        commonWords == SelectSeq(words1, LAMBDA w : SeqIncludes(words2, w))
        totalWords == IF Len(words1) >= Len(words2) THEN Len(words1) ELSE Len(words2)
    IN  <<Len(commonWords), totalWords>>

\* config.ignorePatterns defaults to [], so shouldIgnoreField returns false
shouldIgnoreField(field, oldValue, newValue) == FALSE

hasFieldChanged(field, oldValue, newValue) ==
    IF IsNullish(oldValue) THEN ~IsNullish(newValue)
    ELSE IF IsNullish(newValue) THEN TRUE
    ELSE IF shouldIgnoreField(field, oldValue, newValue) THEN FALSE
    ELSE IF IsNum(oldValue) /\ IsNum(newValue) THEN oldValue[2] # newValue[2]
    ELSE IF IsStr(oldValue) /\ IsStr(newValue)
         THEN normalizeString(oldValue[2]) # normalizeString(newValue[2])
    ELSE ~StrictEq(oldValue, newValue)

getChangeType(oldValue, newValue) ==
    IF IsNullish(oldValue) THEN "ADDED"
    ELSE IF IsNullish(newValue) THEN "REMOVED"
    ELSE "MODIFIED"

\* config.semanticAnalysis defaults to true
calculateFieldSignificance(field, oldValue, newValue) ==
    IF field = "price" /\ IsNum(oldValue) /\ IsNum(newValue)
    THEN \* Math.abs((new - old) / old): Infinity when old is 0
         IF oldValue[2] = 0 THEN <<1, 1>>
         ELSE RMin(<<Abs(newValue[2] - oldValue[2]), Abs(oldValue[2])>>, <<1, 1>>)
    ELSE IF field = "title" /\ IsStr(oldValue) /\ IsStr(newValue)
    THEN calculateSemanticSimilarity(oldValue[2], newValue[2])
    ELSE IF field = "condition" THEN <<3, 10>>
    ELSE IF field = "location" THEN <<2, 10>>
    ELSE <<1, 10>>

RECURSIVE Flatten(_)
Flatten(ss) == IF ss = <<>> THEN <<>> ELSE Head(ss) \o Flatten(Tail(ss))

compareListings(canonical, scraped) ==
    Flatten([k \in 1..Len(TrackedFields) |->
        LET field == TrackedFields[k]
            oldValue == canonical[field]
            newValue == scraped[field]
        IN  IF hasFieldChanged(field, oldValue, newValue)
            THEN << [field |-> field, oldValue |-> oldValue, newValue |-> newValue,
                     changeType |-> getChangeType(oldValue, newValue),
                     significance |->
                         calculateFieldSignificance(field, oldValue, newValue)] >>
            ELSE <<>>])

\* sha256(JSON.stringify(trackedData, sortedKeys)): the hash is modelled by the
\* serialized content, the tracked values in sorted key order. JSON.stringify
\* omits a property whose value is undefined and writes null for null, so
\* Undefined and Null hash differently.
FieldHashOf(l) == <<l.condition, l.location, l.price, l.title>>
NoHash == <<>>

generateFieldHash(listing) == FieldHashOf(listing)

RECURSIVE RSum(_)
RSum(cs) == IF cs = <<>> THEN <<0, 1>> ELSE RAdd(Head(cs).significance, RSum(Tail(cs)))

RECURSIVE RMaxSig(_)
RMaxSig(cs) ==
    IF Len(cs) = 1 THEN cs[1].significance
    ELSE RMax(cs[1].significance, RMaxSig(Tail(cs)))

calculateConfidence(fieldChanges) ==
    IF fieldChanges = <<>> THEN <<0, 1>>
    ELSE LET sum == RSum(fieldChanges)
             avg == <<sum[1], sum[2] * Len(fieldChanges)>>
         IN  RMin(<<2 * avg[1], avg[2]>>, <<1, 1>>)

\* new ChangeEvent(...) inside createChangeEvent; eventId is assigned when the
\* row is inserted. `confidence || 1.0` turns a confidence of 0 into 1.
createChangeEvent(eventType, listingId, source, scrapedListing, canonicalListing, fieldChanges) ==
    LET changedFields == IF eventType = "UPDATED" THEN fieldChanges ELSE <<>>
        fieldHashBefore ==
            IF eventType = "CREATED" THEN NoHash ELSE canonicalListing.fieldHash
        fieldHashAfter ==
            IF eventType = "REMOVED" THEN NoHash ELSE generateFieldHash(scrapedListing)
        version == IF eventType = "UPDATED" THEN canonicalListing.version + 1 ELSE 1
        maxSignificance == RMaxSig(changedFields)
        significance ==
            IF eventType \in {"CREATED", "REMOVED"} THEN "HIGH"
            ELSE IF RLt(<<5, 10>>, maxSignificance) THEN "HIGH"
            ELSE IF RLt(<<2, 10>>, maxSignificance) THEN "MEDIUM"
            ELSE "LOW"
        conf == IF eventType = "UPDATED" THEN calculateConfidence(changedFields)
                ELSE <<1, 1>>
    IN  [eventType |-> eventType, listingId |-> listingId, source |-> source,
         changedFields |-> changedFields, fieldHashBefore |-> fieldHashBefore,
         fieldHashAfter |-> fieldHashAfter, detectedAt |-> now, version |-> version,
         confidence |-> IF conf[1] = 0 THEN <<1, 1>> ELSE conf,
         significance |-> significance]

isSignificantChange(changeEvent) ==
    IF changeEvent.eventType \in {"CREATED", "REMOVED"} THEN TRUE
    ELSE \E k \in 1..Len(changeEvent.changedFields) :
            RLeq(MinSignificance, changeEvent.changedFields[k].significance)

SeqHasId(ls, id) == \E i \in 1..Len(ls) : ls[i].id = id
SeqById(ls, id) == ls[CHOOSE i \in 1..Len(ls) : ls[i].id = id]

\* scrapedListings: sequence of scraped listings (field id);
\* canonicalListings: sequence of CanonicalListing objects (field listingId, also
\* kept as id). Map iteration order is insertion order.
detectChanges(scrapedListings, canonicalListings, source) ==
    LET created ==
            Flatten([i \in 1..Len(scrapedListings) |->
                IF SeqHasId(canonicalListings, scrapedListings[i].id) THEN <<>>
                ELSE << createChangeEvent("CREATED", scrapedListings[i].id, source,
                                          scrapedListings[i], scrapedListings[i], <<>>) >>])
        rest ==
            Flatten([i \in 1..Len(canonicalListings) |->
                LET c == canonicalListings[i]
                IN  IF ~SeqHasId(scrapedListings, c.id)
                    THEN << createChangeEvent("REMOVED", c.id, source, c, c, <<>>) >>
                    ELSE LET s == SeqById(scrapedListings, c.id)
                             fieldChanges == compareListings(c, s)
                         IN  IF Len(fieldChanges) > 0
                             THEN << createChangeEvent("UPDATED", c.id, source, s, c,
                                                       fieldChanges) >>
                             ELSE <<>>])
    IN  SelectSeq(created \o rest, isSignificantChange)


----------------------------------------------------------------------------
(* CanonicalListing *)

\* new CanonicalListing(data). Absent properties of data: fieldHash NoHash,
\* version 0, status "", firstSeenAt / lastSeenAt -1, description Undefined.
\* Line 20 calls generateFieldHash() when data.fieldHash is missing, before
\* line 26 assigns this.trackedFields: this.trackedFields.forEach is then a
\* TypeError and the constructor throws (ok = FALSE).
CanonicalListing(data) ==
    [ok |-> data.fieldHash # NoHash,
     listing |->
        [id |-> data.id, source |-> data.source,
         firstSeenAt |-> IF data.firstSeenAt < 0 THEN now ELSE data.firstSeenAt,
         lastSeenAt |-> IF data.lastSeenAt < 0 THEN now ELSE data.lastSeenAt,
         status |-> IF data.status = "" THEN "ACTIVE" ELSE data.status,
         title |-> OrElse(data.title, data.description),
         price |-> data.price, condition |-> data.condition,
         location |-> data.location,
         fieldHash |-> data.fieldHash,
         version |-> IF data.version = 0 THEN 1 ELSE data.version]]

\* CanonicalListing.updateFields(newData) followed by rawData assignment
\* (DiffEngine.updateCanonicalListing). Every scraped listing has the four
\* tracked keys (ScraperWorker.parseWillhabenPage assigns them), so
\* Object.keys(newData) covers them and each tracked field is overwritten.
updateFields(listing, newData) ==
    LET upd == [listing EXCEPT !.title = newData.title, !.price = newData.price,
                               !.condition = newData.condition,
                               !.location = newData.location]
    IN  [upd EXCEPT !.lastSeenAt = now,
                    !.version = listing.version + 1,
                    !.fieldHash = FieldHashOf(upd)]

updateCanonicalListing(canonicalListing, scrapedListing) ==
    updateFields(canonicalListing, scrapedListing)

createCanonicalListing(scrapedListing, source) ==
    CanonicalListing(
        [id |-> scrapedListing.id, source |-> source,
         firstSeenAt |-> -1, lastSeenAt |-> -1, status |-> "",
         title |-> OrElse(scrapedListing.title, scrapedListing.description),
         description |-> Undefined,
         price |-> scrapedListing.price, condition |-> scrapedListing.condition,
         location |-> scrapedListing.location,
         fieldHash |-> NoHash, version |-> 0])

----------------------------------------------------------------------------
(* StateStore: row conversions *)

DigitChars == <<"0", "1", "2", "3", "4", "5", "6", "7", "8", "9">>
IsDigit(c) == \E d \in 1..10 : DigitChars[d] = c
DigitValue(c) == (CHOOSE d \in 1..10 : DigitChars[d] = c) - 1

RECURSIVE NatToStr(_)
NatToStr(n) ==
    IF n < 10 THEN <<DigitChars[n + 1]>>
    ELSE NatToStr(n \div 10) \o <<DigitChars[(n % 10) + 1]>>

RECURSIVE StrToNat(_, _)
StrToNat(s, acc) ==
    IF s = <<>> THEN acc ELSE StrToNat(Tail(s), 10 * acc + DigitValue(Head(s)))

\* a value bound to a TEXT column: undefined and null become NULL, a number is
\* stored as its decimal text
ToText(v) ==
    IF IsNullish(v) THEN Null
    ELSE IF IsNum(v) THEN Str(NatToStr(v[2]))
    ELSE v

\* a value bound to a REAL column: text that is a well-formed number is stored
\* as the number, other text stays text
ToReal(v) ==
    IF IsNullish(v) THEN Null
    ELSE IF IsStr(v) /\ v[2] # <<>> /\ \A i \in 1..Len(v[2]) : IsDigit(v[2][i])
         THEN Num(StrToNat(v[2], 0))
    ELSE v

\* the column values saveListing binds from listing.toJSON()
ListingToRow(l) ==
    [l EXCEPT !.title = ToText(l.title), !.price = ToReal(l.price),
              !.condition = ToText(l.condition), !.location = ToText(l.location)]

rowToListing(row) ==
    CanonicalListing(
        [id |-> row.id, source |-> row.source,
         firstSeenAt |-> row.firstSeenAt, lastSeenAt |-> row.lastSeenAt,
         status |-> row.status, title |-> row.title, description |-> Undefined,
         price |-> row.price, condition |-> row.condition,
         location |-> row.location, fieldHash |-> row.fieldHash,
         version |-> row.version]).listing

\* CanonicalListing.fromJSON(JSON.parse(cached)): the cached JSON text of
\* listing.toJSON(), in which undefined properties are dropped
fromJSON(cached) ==
    CanonicalListing(
        [id |-> cached.id, source |-> cached.source,
         firstSeenAt |-> cached.firstSeenAt, lastSeenAt |-> cached.lastSeenAt,
         status |-> cached.status, title |-> cached.title, description |-> Undefined,
         price |-> cached.price, condition |-> cached.condition,
         location |-> cached.location, fieldHash |-> cached.fieldHash,
         version |-> cached.version]).listing


----------------------------------------------------------------------------
(* Bounds and configuration of the engine model *)

MaxTime == 300        \* the clock stops advancing at MaxTime seconds
TickStep == 300       \* seconds the clock advances per Tick
MaxPolls == 2         \* forced polls and reconciliation runs started in a behaviour
MaxFaults == 1        \* injected I/O failures and process stops in a behaviour

Targets == {"t1"}
Recon == "recon"
Workers == Targets \cup {Recon}
TargetSeq == <<"t1">>
Url(t) == IF t = "t1" THEN "u1" ELSE "u2"
Domains == {"willhaben.at"}
DomainOf(t) == "willhaben.at"

IdSeq == <<"a">>
ListingIds == {IdSeq[k] : k \in 1..Len(IdSeq)}
Prices == {80, 100}

GracePeriod == 300           \* PollingTarget.gracePeriod default, seconds
FailureThreshold == 5        \* recordFailure opens the breaker at 5
RateWindow == 60             \* checkRateLimit keeps the last 60000 ms
RequestsPerMinute == 1       \* rateLimitPolicy.requestsPerMinute of the targets

\* a listing as ScraperWorker.parseWillhabenPage formats it
Scraped(id, price) ==
    [id |-> id, title |-> Str(<<"a">>), description |-> Str(<<"a">>),
     price |-> Num(price), condition |-> Str(<<"b">>), location |-> Str(<<"c">>)]

\* results a scrape can return: any subset of the ids, each at some price
Snapshots ==
    { Flatten([k \in 1..Len(IdSeq) |->
          IF IdSeq[k] \in S THEN <<Scraped(IdSeq[k], f[IdSeq[k]])>> ELSE <<>>]) :
        S \in SUBSET ListingIds, f \in [ListingIds -> Prices] }

\* a row of table listings as saveListing writes it
PersistedRow(id, source, price) ==
    LET s == Scraped(id, price)
    IN  ListingToRow([id |-> id, source |-> source, firstSeenAt |-> 0,
                      lastSeenAt |-> 0, status |-> "ACTIVE", title |-> s.title,
                      price |-> s.price, condition |-> s.condition,
                      location |-> s.location, fieldHash |-> FieldHashOf(s),
                      version |-> 1])

\* contents of table listings found when the store is opened: CREATE TABLE IF
\* NOT EXISTS keeps the rows of an existing database file. A row can only come
\* from such a file: the one INSERT of a new listing is on the CREATED path of
\* processChanges, where the CanonicalListing constructor throws.
InitialTables ==
    { <<>>,
      ("a" :> PersistedRow("a", "u1", 100)) }

NewTarget == [consecutiveFailures |-> 0, circuitBreakerState |-> "CLOSED"]

IdleTask ==
    [pc |-> "idle", target |-> "", queue |-> <<>>, tgt |-> NewTarget,
     scraped |-> <<>>, changes |-> <<>>, i |-> 0, held |-> <<>>, wrote |-> {},
     bumps |-> 0, outcome |-> ""]

----------------------------------------------------------------------------
(* PollingTarget runtime state *)

recordSuccess(t) ==
    [t EXCEPT !.consecutiveFailures = 0,
              !.circuitBreakerState = IF @ = "HALF_OPEN" THEN "CLOSED" ELSE @]

recordFailure(t) ==
    [t EXCEPT !.consecutiveFailures = @ + 1,
              !.circuitBreakerState =
                  IF t.consecutiveFailures + 1 >= FailureThreshold THEN "OPEN" ELSE @]

----------------------------------------------------------------------------
(* Scheduler *)

\* checkRateLimit: the limiter's timestamps after the call, and its result
RecentRequests(domain) ==
    SelectSeq(rateLimiters[domain], LAMBDA ts : now - ts < RateWindow)
checkRateLimit(t) == Len(RecentRequests(DomainOf(t))) < RequestsPerMinute

\* StateStore.getAllListings(source) mapped through rowToListing
getAllListings(source) ==
    Flatten([k \in 1..Len(IdSeq) |->
        IF IdSeq[k] \in DOMAIN listings /\ listings[IdSeq[k]].source = source
        THEN <<rowToListing(listings[IdSeq[k]])>> ELSE <<>>])

\* processChanges: move to the next change of the loop, or leave the loop
NextChange(tk) ==
    IF tk.i < Len(tk.changes)
    THEN [tk EXCEPT !.i = @ + 1, !.pc = "event", !.held = <<>>]
    ELSE [tk EXCEPT !.pc = "finish", !.held = <<>>]

otherVars == <<pass, accepting, delivered, ivIn, ivOut, dfIn, dfOut, extVars>>

Tick ==
    /\ now + TickStep <= MaxTime
    /\ now' = now + TickStep
    /\ UNCHANGED <<listings, cache, events, targets, activePolls, rateLimiters, task,
                   faults, polls, lastOk>>
    /\ UNCHANGED otherVars

\* ListenerSystem.forcePoll -> Scheduler.pollTarget up to its first await
ForcePoll(t) ==
    /\ task[t].pc = "idle"
    /\ polls < MaxPolls
    /\ t \notin activePolls
    /\ polls' = polls + 1
    /\ activePolls' = activePolls \cup {t}
    /\ IF checkRateLimit(t)
       THEN /\ rateLimiters' = [rateLimiters EXCEPT
                   ![DomainOf(t)] = Append(RecentRequests(DomainOf(t)), now)]
            /\ task' = [task EXCEPT ![t] =
                   [IdleTask EXCEPT !.pc = "scrape", !.target = t, !.tgt = targets[t]]]
       ELSE /\ rateLimiters' = [rateLimiters EXCEPT
                   ![DomainOf(t)] = RecentRequests(DomainOf(t))]
            /\ task' = [task EXCEPT ![t] =
                   [IdleTask EXCEPT !.pc = "saveTarget", !.target = t,
                                    !.tgt = recordFailure(targets[t]),
                                    !.outcome = "denied"]]
    /\ UNCHANGED <<now, listings, cache, events, targets, faults, lastOk>>
    /\ UNCHANGED otherVars

\* runReconciliation: getAllPollingTargets, then one target after the other
ReconStart ==
    /\ task[Recon].pc = "idle"
    /\ polls < MaxPolls
    /\ polls' = polls + 1
    /\ task' = [task EXCEPT ![Recon] =
           [IdleTask EXCEPT !.pc = "scrape", !.target = Head(TargetSeq),
                            !.queue = Tail(TargetSeq),
                            !.tgt = targets[Head(TargetSeq)]]]
    /\ UNCHANGED <<now, listings, cache, events, targets, activePolls, rateLimiters,
                   faults, lastOk>>
    /\ UNCHANGED otherVars

\* await scraperWorker.scrapeTarget(target [, true]) returns listings
Scrape(w) ==
    /\ task[w].pc = "scrape"
    /\ \E snap \in Snapshots :
          task' = [task EXCEPT ![w] = [@ EXCEPT !.pc = "load", !.scraped = snap]]
    /\ UNCHANGED <<now, listings, cache, events, targets, activePolls, rateLimiters,
                   faults, polls, lastOk>>
    /\ UNCHANGED otherVars

\* the step after a reconciliation target, or the end of the sweep
ReconAdvance(tk) ==
    IF tk.queue = <<>> THEN IdleTask
    ELSE [IdleTask EXCEPT !.pc = "scrape", !.target = Head(tk.queue),
                          !.queue = Tail(tk.queue), !.tgt = targets[Head(tk.queue)]]

\* scrapeTarget or getAllListings rejects: pollTarget's catch records a failure,
\* runReconciliation's catch logs and goes on
Throw(w) ==
    /\ task[w].pc \in {"scrape", "load"}
    /\ faults < MaxFaults
    /\ faults' = faults + 1
    /\ task' = [task EXCEPT ![w] =
           IF w = Recon THEN ReconAdvance(task[w])
           ELSE [@ EXCEPT !.pc = "saveTarget", !.tgt = recordFailure(@),
                          !.outcome = "failure"]]
    /\ UNCHANGED <<now, listings, cache, events, targets, activePolls, rateLimiters,
                   polls, lastOk>>
    /\ UNCHANGED otherVars

\* await getAllListings(target.url); detectChanges; processChanges entered
LoadCanonical(w) ==
    /\ task[w].pc = "load"
    /\ LET tk == task[w]
           changes == detectChanges(tk.scraped, getAllListings(Url(tk.target)),
                                    Url(tk.target))
       IN  task' = [task EXCEPT ![w] = NextChange([tk EXCEPT !.changes = changes])]
    /\ UNCHANGED <<now, listings, cache, events, targets, activePolls, rateLimiters,
                   faults, polls, lastOk>>
    /\ UNCHANGED otherVars


\* the row StateStore.saveEvent inserts (status, retry_count and created_at take
\* their column defaults)
EventRow(change) ==
    [eventId |-> Len(events) + 1, eventType |-> change.eventType,
     listingId |-> change.listingId, source |-> change.source,
     changedFields |-> change.changedFields,
     fieldHashBefore |-> change.fieldHashBefore,
     fieldHashAfter |-> change.fieldHashAfter, detectedAt |-> change.detectedAt,
     version |-> change.version, confidence |-> change.confidence,
     significance |-> change.significance, status |-> "PENDING",
     retryCount |-> 0, createdAt |-> now]

\* processChanges, one change: await saveEvent(change) resolves; for CREATED the
\* canonical listing is then built synchronously
SaveEvent(w) ==
    /\ task[w].pc = "event"
    /\ LET tk == task[w]
           change == tk.changes[tk.i]
           saved == [tk EXCEPT !.wrote = @ \cup {Len(events) + 1}]
       IN  /\ events' = Append(events, EventRow(change))
           /\ IF change.eventType = "CREATED"
              THEN LET made == createCanonicalListing(
                                   SeqById(tk.scraped, change.listingId),
                                   Url(tk.target))
                   IN  task' = [task EXCEPT ![w] =
                           IF made.ok
                           THEN [saved EXCEPT !.pc = "save", !.held = <<made.listing>>]
                           ELSE NextChange(saved)]
              ELSE task' = [task EXCEPT ![w] = [saved EXCEPT !.pc = "get"]]
    /\ UNCHANGED <<now, listings, cache, targets, activePolls, rateLimiters, faults,
                   polls, lastOk>>
    /\ UNCHANGED otherVars

\* saveEvent rejects: the per-change catch logs and the loop goes on
SaveEventFails(w) ==
    /\ task[w].pc = "event"
    /\ faults < MaxFaults
    /\ faults' = faults + 1
    /\ task' = [task EXCEPT ![w] = NextChange(@)]
    /\ UNCHANGED <<now, listings, cache, events, targets, activePolls, rateLimiters,
                   polls, lastOk>>
    /\ UNCHANGED otherVars

\* the listing object processChanges hands to saveListing for an UPDATED or
\* REMOVED change, from the object getListing returned
Mutated(tk, listing) ==
    LET change == tk.changes[tk.i]
    IN  IF change.eventType = "UPDATED"
        THEN updateCanonicalListing(listing, SeqById(tk.scraped, change.listingId))
        ELSE [listing EXCEPT !.status = "REMOVED", !.lastSeenAt = now]

\* await getListing(change.listingId): Redis first, then SQLite (caching the row);
\* the listing is mutated synchronously on return
GetListing(w) ==
    /\ task[w].pc = "get"
    /\ LET tk == task[w]
           id == tk.changes[tk.i].listingId
       IN  IF id \in DOMAIN cache
           THEN /\ task' = [task EXCEPT ![w] =
                       [tk EXCEPT !.pc = "save",
                                  !.held = <<Mutated(tk, fromJSON(cache[id]))>>]]
                /\ cache' = cache
           ELSE IF id \in DOMAIN listings
           THEN /\ task' = [task EXCEPT ![w] =
                       [tk EXCEPT !.pc = "save",
                                  !.held = <<Mutated(tk, rowToListing(listings[id]))>>]]
                /\ cache' = (id :> rowToListing(listings[id])) @@ cache
           ELSE /\ task' = [task EXCEPT ![w] = NextChange(tk)]
                /\ cache' = cache
    /\ UNCHANGED <<now, listings, events, targets, activePolls, rateLimiters, faults,
                   polls, lastOk>>
    /\ UNCHANGED otherVars

\* redis.get rejects: getListing catches and returns null, the change is skipped
GetListingFails(w) ==
    /\ task[w].pc = "get"
    /\ faults < MaxFaults
    /\ faults' = faults + 1
    /\ task' = [task EXCEPT ![w] = NextChange(@)]
    /\ UNCHANGED <<now, listings, cache, events, targets, activePolls, rateLimiters,
                   polls, lastOk>>
    /\ UNCHANGED otherVars

Bumped(tk) ==
    LET l == tk.held[1]
    IN  IF l.id \in DOMAIN listings /\ listings[l.id].version # l.version
        THEN [tk EXCEPT !.bumps = @ + 1] ELSE tk

\* await saveListing(listing): INSERT OR REPLACE, then redis.setEx
SaveListing(w) ==
    /\ task[w].pc = "save"
    /\ LET l == task[w].held[1]
       IN  /\ listings' = (l.id :> ListingToRow(l)) @@ listings
           /\ cache' = (l.id :> l) @@ cache
    /\ task' = [task EXCEPT ![w] = NextChange(Bumped(@))]
    /\ UNCHANGED <<now, events, targets, activePolls, rateLimiters, faults, polls,
                   lastOk>>
    /\ UNCHANGED otherVars

\* the INSERT fails: saveListing catches and returns false, nothing is written
SaveListingDbFails(w) ==
    /\ task[w].pc = "save"
    /\ faults < MaxFaults
    /\ faults' = faults + 1
    /\ task' = [task EXCEPT ![w] = NextChange(@)]
    /\ UNCHANGED <<now, listings, cache, events, targets, activePolls, rateLimiters,
                   polls, lastOk>>
    /\ UNCHANGED otherVars

\* the INSERT succeeds and redis.setEx rejects: the row is written, the cached
\* entry is not replaced, saveListing returns false
SaveListingCacheFails(w) ==
    /\ task[w].pc = "save"
    /\ faults < MaxFaults
    /\ faults' = faults + 1
    /\ LET l == task[w].held[1]
       IN  listings' = (l.id :> ListingToRow(l)) @@ listings
    /\ task' = [task EXCEPT ![w] = NextChange(Bumped(@))]
    /\ UNCHANGED <<now, cache, events, targets, activePolls, rateLimiters, polls,
                   lastOk>>
    /\ UNCHANGED otherVars

\* pollTarget after processChanges: recordSuccess, then await savePollingTarget
FinishPoll(t) ==
    /\ task[t].pc = "finish"
    /\ task' = [task EXCEPT ![t] =
           [@ EXCEPT !.pc = "saveTarget", !.tgt = recordSuccess(@),
                     !.outcome = "success"]]
    /\ UNCHANGED <<now, listings, cache, events, targets, activePolls, rateLimiters,
                   faults, polls, lastOk>>
    /\ UNCHANGED otherVars

\* savePollingTarget resolves; finally removes the target from activePolls
SaveTarget(t) ==
    /\ task[t].pc = "saveTarget"
    /\ targets' = [targets EXCEPT ![t] = task[t].tgt]
    /\ activePolls' = activePolls \ {t}
    /\ lastOk' = IF task[t].outcome = "success"
                 THEN [lastOk EXCEPT ![t] = <<task[t].scraped>>] ELSE lastOk
    /\ task' = [task EXCEPT ![t] = IdleTask]
    /\ UNCHANGED <<now, listings, cache, events, rateLimiters, faults, polls>>
    /\ UNCHANGED otherVars

\* savePollingTarget rejects: inside the try block the catch records a failure and
\* saves again; inside the catch block the rejection leaves pollTarget through finally
SaveTargetFails(t) ==
    /\ task[t].pc = "saveTarget"
    /\ faults < MaxFaults
    /\ faults' = faults + 1
    /\ IF task[t].outcome = "failure"
       THEN /\ task' = [task EXCEPT ![t] = IdleTask]
            /\ activePolls' = activePolls \ {t}
       ELSE /\ task' = [task EXCEPT ![t] =
                   [@ EXCEPT !.tgt = recordFailure(@), !.outcome = "failure"]]
            /\ activePolls' = activePolls
    /\ UNCHANGED <<now, listings, cache, events, targets, rateLimiters, polls, lastOk>>
    /\ UNCHANGED otherVars

\* runReconciliation after processChanges for a target: an OPEN breaker is set to
\* HALF_OPEN and the target saved; then the next target
ReconFinish ==
    /\ task[Recon].pc = "finish"
    /\ LET tk == task[Recon]
       IN  /\ targets' =
                 IF tk.tgt.circuitBreakerState = "OPEN"
                 THEN [targets EXCEPT ![tk.target] =
                          [tk.tgt EXCEPT !.circuitBreakerState = "HALF_OPEN"]]
                 ELSE targets
           /\ task' = [task EXCEPT ![Recon] = ReconAdvance(tk)]
    /\ UNCHANGED <<now, listings, cache, events, activePolls, rateLimiters, faults,
                   polls, lastOk>>
    /\ UNCHANGED otherVars

\* the process stops and is started again: memory is lost, SQLite and Redis keep
\* their contents
Crash ==
    /\ faults < MaxFaults
    /\ \E w \in Workers : task[w].pc # "idle"
    /\ faults' = faults + 1
    /\ task' = [w \in Workers |-> IdleTask]
    /\ activePolls' = {}
    /\ rateLimiters' = [d \in Domains |-> <<>>]
    /\ UNCHANGED <<now, listings, cache, events, targets, polls, lastOk>>
    /\ UNCHANGED otherVars

Init ==
    /\ now = 0
    /\ listings \in InitialTables
    /\ cache = <<>>
    /\ events = <<>>
    /\ targets = [t \in Targets |-> NewTarget]
    /\ activePolls = {}
    /\ rateLimiters = [d \in Domains |-> <<>>]
    /\ task = [w \in Workers |-> IdleTask]
    /\ faults = 0
    /\ polls = 0
    /\ lastOk = [t \in Targets |-> <<>>]
    /\ pass = <<>>
    /\ accepting = <<>>
    /\ delivered = <<>>
    /\ ivIn = <<>>
    /\ ivOut = <<>>
    /\ dfIn = <<>>
    /\ dfOut = <<>>
    /\ ExtUnused

Next ==
    \/ Tick
    \/ \E t \in Targets : ForcePoll(t)
    \/ ReconStart
    \/ \E w \in Workers : Scrape(w)
    \/ \E w \in Workers : Throw(w)
    \/ \E w \in Workers : LoadCanonical(w)
    \/ \E w \in Workers : SaveEvent(w)
    \/ \E w \in Workers : SaveEventFails(w)
    \/ \E w \in Workers : GetListing(w)
    \/ \E w \in Workers : GetListingFails(w)
    \/ \E w \in Workers : SaveListing(w)
    \/ \E w \in Workers : SaveListingDbFails(w)
    \/ \E w \in Workers : SaveListingCacheFails(w)
    \/ \E t \in Targets : FinishPoll(t)
    \/ \E t \in Targets : SaveTarget(t)
    \/ \E t \in Targets : SaveTargetFails(t)
    \/ ReconFinish
    \/ Crash

Spec == Init /\ [][Next]_vars


----------------------------------------------------------------------------
(* Claims about the poll -> diff -> store path (specification Spec) *)

Quiescent == \A w \in Workers : task[w].pc = "idle"

EventsOf(source, id) ==
    {k \in DOMAIN events : events[k].source = source /\ events[k].listingId = id}

\* the listing mutation an event describes is in table listings
EventApplied(e) ==
    /\ e.listingId \in DOMAIN listings
    /\ listings[e.listingId].source = e.source
    /\ e.eventType = "UPDATED" => listings[e.listingId].version >= e.version
    /\ e.eventType = "REMOVED" => listings[e.listingId].status = "REMOVED"

\* the event a listing mutation was emitted with is in table events (rows found
\* at start are ACTIVE with version 1, so any other row was written by a poll)
MutationHasEvent(id) ==
    LET row == listings[id]
    IN  /\ row.status = "REMOVED" =>
              \E k \in EventsOf(row.source, id) : events[k].eventType = "REMOVED"
        /\ row.version > 1 =>
              \E k \in EventsOf(row.source, id) : events[k].eventType = "UPDATED"

\* C1: atomic commit. The store never holds an event whose listing mutation is
\* missing, nor a listing mutation whose event is missing. Stated here for the
\* states in which no poll or reconciliation is under way (the claim covers
\* these and also the states in between two writes) and no write has failed.
C1_AtomicCommit ==
    (Quiescent /\ faults = 0) =>
        /\ \A k \in DOMAIN events : EventApplied(events[k])
        /\ \A id \in DOMAIN listings : MutationHasEvent(id)

PollDone(t) == task[t].pc = "saveTarget" /\ task[t].outcome = "success"

\* C4: idempotence. A poll whose fetch equals the fetch of the previous
\* successful poll of the target writes no event and changes no listing version.
C4_Idempotence ==
    \A t \in Targets :
        (PollDone(t) /\ lastOk[t] = <<task[t].scraped>>) =>
            (task[t].wrote = {} /\ task[t].bumps = 0)

C6_EventVersionsIncrease ==
    \A i, j \in DOMAIN events :
        (i < j /\ events[i].source = events[j].source
               /\ events[i].listingId = events[j].listingId) =>
            events[i].version < events[j].version

C10_FirstSighting ==
    \A t \in Targets :
        (PollDone(t) /\ faults = 0) =>
            \A c \in DOMAIN task[t].changes :
                task[t].changes[c].eventType = "CREATED" =>
                    LET id == task[t].changes[c].listingId
                        mine == {k \in task[t].wrote :
                                    events[k].eventType = "CREATED"
                                    /\ events[k].listingId = id}
                    IN  /\ Cardinality(mine) = 1
                        /\ \A k \in mine : events[k].significance = "HIGH"
                                           /\ events[k].version = 1
                        /\ id \in DOMAIN listings
                        /\ listings[id].source = Url(t)
                        /\ listings[id].version = 1
                        /\ listings[id].status = "ACTIVE"


----------------------------------------------------------------------------
(* NotificationService: processPendingEvents passes over table events *)

MaxEvents == 2               \* rows inserted into table events
Subscribers == {"s1", "s2"}  \* NotificationService.subscribers, all enabled
Passes == {1, 2}             \* processPendingEvents invocations that can overlap:
                             \* setInterval starts one every processingInterval
                             \* whether or not the previous one has returned
BatchSize == 10              \* config.batchSize default
EventTypes == {"CREATED", "REMOVED"}

engineRest == <<now, listings, cache, targets, activePolls, rateLimiters, task,
                faults, polls, lastOk>>
pureVars == <<ivIn, ivOut, dfIn, dfOut, extVars>>

IdlePass == [pc |-> "idle", batch |-> <<>>, ok |-> FALSE]

\* StateStore.getPendingEvents(limit): the event ids of the rows with status
\* PENDING, oldest first (rows of equal created_at taken in insertion order)
getPendingEvents(limit) ==
    LET all == Flatten([k \in 1..Len(events) |->
                   IF events[k].status = "PENDING" THEN <<events[k].eventId>>
                   ELSE <<>>])
    IN  SubSeq(all, 1, IF Len(all) < limit THEN Len(all) ELSE limit)

\* StateStore.markEventProcessed(eventId, success)
markEventProcessed(eventId, success) ==
    [k \in DOMAIN events |->
        IF events[k].eventId = eventId
        THEN [events[k] EXCEPT !.status = IF success THEN "PROCESSED" ELSE "FAILED"]
        ELSE events[k]]

\* a poll task inserts an event row (StateStore.saveEvent)
EmitEvent(id, eventType) ==
    /\ Len(events) < MaxEvents
    /\ LET l == rowToListing(PersistedRow(id, "u1", 100))
       IN  events' = Append(events,
               EventRow(createChangeEvent(eventType, id, "u1", Scraped(id, 100), l, <<>>)))
    /\ UNCHANGED <<engineRest, dispVars, pureVars>>

\* the interval timer fires: processPendingEvents up to the return of
\* getPendingEvents; an empty result ends the pass
StartPass(p) ==
    /\ pass[p].pc = "idle"
    /\ getPendingEvents(BatchSize) # <<>>
    /\ pass' = [pass EXCEPT ![p] =
           [IdlePass EXCEPT !.pc = "deliver", !.batch = getPendingEvents(BatchSize)]]
    /\ UNCHANGED <<engineVars, accepting, delivered, pureVars>>

\* processEvent: Promise.allSettled over deliverToSubscriber for every enabled
\* subscriber; a delivery is fulfilled when the endpoint answers 2xx
Deliver(p) ==
    /\ pass[p].pc = "deliver"
    /\ LET eventId == Head(pass[p].batch)
       IN  /\ delivered' = [s \in Subscribers |->
                  IF accepting[s] THEN delivered[s] \cup {eventId} ELSE delivered[s]]
           /\ pass' = [pass EXCEPT ![p] =
                  [@ EXCEPT !.pc = "mark", !.ok = \A s \in Subscribers : accepting[s]]]
    /\ UNCHANGED <<engineVars, accepting, pureVars>>

\* processEvent: await markEventProcessed(eventId, failures.length === 0), then
\* the next event of the batch
MarkProcessed(p) ==
    /\ pass[p].pc = "mark"
    /\ events' = markEventProcessed(Head(pass[p].batch), pass[p].ok)
    /\ pass' = [pass EXCEPT ![p] =
           IF Tail(pass[p].batch) = <<>> THEN IdlePass
           ELSE [@ EXCEPT !.pc = "deliver", !.batch = Tail(@), !.ok = FALSE]]
    /\ UNCHANGED <<engineRest, accepting, delivered, pureVars>>

\* a subscriber endpoint that rejected deliveries accepts them from now on
Recover(s) ==
    /\ ~accepting[s]
    /\ accepting' = [accepting EXCEPT ![s] = TRUE]
    /\ UNCHANGED <<engineVars, pass, delivered, pureVars>>

InitDispatch ==
    /\ now = 0
    /\ listings = <<>>
    /\ cache = <<>>
    /\ events = <<>>
    /\ targets = [t \in Targets |-> NewTarget]
    /\ activePolls = {}
    /\ rateLimiters = [d \in Domains |-> <<>>]
    /\ task = [w \in Workers |-> IdleTask]
    /\ faults = 0
    /\ polls = 0
    /\ lastOk = [t \in Targets |-> <<>>]
    /\ pass = [p \in Passes |-> IdlePass]
    /\ accepting \in [Subscribers -> BOOLEAN]
    /\ delivered = [s \in Subscribers |-> {}]
    /\ ivIn = <<>>
    /\ ivOut = <<>>
    /\ dfIn = <<>>
    /\ dfOut = <<>>
    /\ ExtUnused

NextDispatch ==
    \/ \E id \in {"a", "b"}, eventType \in EventTypes : EmitEvent(id, eventType)
    \/ \E p \in Passes : StartPass(p)
    \/ \E p \in Passes : Deliver(p)
    \/ \E p \in Passes : MarkProcessed(p)
    \/ \E s \in Subscribers : Recover(s)

SpecDispatch == InitDispatch /\ [][NextDispatch]_vars

\* The timer keeps firing while the service runs and every awaited call returns;
\* each subscriber endpoint recovers at some point.
SpecDispatchFair ==
    /\ InitDispatch /\ [][NextDispatch]_vars
    /\ \A p \in Passes : WF_vars(StartPass(p))
    /\ \A p \in Passes : WF_vars(Deliver(p))
    /\ \A p \in Passes : WF_vars(MarkProcessed(p))
    /\ \A s \in Subscribers : WF_vars(Recover(s))

\* C2: at-least-once delivery. Every event written to the outbox is eventually
\* delivered successfully to every enabled subscriber, given that every
\* subscriber accepts deliveries from some point on.
C2_AtLeastOnce ==
    \A k \in 1..MaxEvents :
        (Len(events) >= k) ~> (\A s \in Subscribers : k \in delivered[s])

\* C3: per-listing ordering. No subscriber has received a later event of a
\* listing while an earlier event of that listing is still undelivered to it.
C3_PerListingOrder ==
    \A s \in Subscribers : \A j \in delivered[s] : \A i \in 1..(j - 1) :
        events[i].listingId = events[j].listingId => i \in delivered[s]


----------------------------------------------------------------------------
(* PollingTarget.calculateAdaptiveInterval (specification SpecInterval) *)

IvStep == 1800               \* clock step, seconds
IvMaxTime == 3600            \* last clock value
MaxHistory == 2              \* entries recordChange may add to changeHistory
HistoryWindow == 3600        \* updateChangeRate counts the last hour
HistoryKept == 86400         \* recordChange keeps the last 24 hours

RDiv(a, b) == <<a[1] * b[2], a[2] * b[1]>>

\* configurations with minInterval <= baseInterval <= maxInterval,
\* 0 < stabilityBonus <= 1 and activityBoost >= 1
IntervalConfigs ==
    { c \in [minInterval : {60, 100}, baseInterval : {100, 300},
             maxInterval : {300, 3600}, changeThreshold : {1},
             stabilityBonus : {<<1, 2>>, <<1, 1>>},
             activityBoost : {<<1, 1>>, <<2, 1>>}] :
        c.minInterval <= c.baseInterval /\ c.baseInterval <= c.maxInterval }

\* new PollingTarget(data) for a configuration: runtime fields at their defaults
NewPollingTarget(c) ==
    [minInterval |-> c.minInterval, baseInterval |-> c.baseInterval,
     maxInterval |-> c.maxInterval, changeThreshold |-> c.changeThreshold,
     stabilityBonus |-> c.stabilityBonus, activityBoost |-> c.activityBoost,
     changeHistory |-> <<>>, currentChangeRate |-> 0,
     consecutiveFailures |-> 0, circuitBreakerState |-> "CLOSED"]

\* an entry of changeHistory is {timestamp, type}
ChangeTypes == {"CHANGE", "NO_CHANGE"}
InHistoryWindow(change) == change.timestamp > now - HistoryWindow
InHistoryKept(change) == change.timestamp > now - HistoryKept

updateChangeRate(t) ==
    [t EXCEPT !.currentChangeRate = Len(SelectSeq(t.changeHistory, InHistoryWindow))]

\* the value calculateAdaptiveInterval returns (this.currentChangeRate has been
\* refreshed by updateChangeRate)
AdaptiveInterval(t) ==
    LET base == <<t.baseInterval, 1>>
        adjusted ==
            IF t.currentChangeRate > t.changeThreshold
            THEN RMax(<<t.minInterval, 1>>, RDiv(base, t.activityBoost))
            ELSE IF t.currentChangeRate = 0 /\ t.consecutiveFailures = 0
            THEN RMin(<<t.maxInterval, 1>>, RMul(base, t.stabilityBonus))
            ELSE base
        interval ==
            IF t.circuitBreakerState = "OPEN"
            THEN RMin(RMul(adjusted, <<2, 1>>), <<t.maxInterval, 1>>)
            ELSE adjusted
    IN  Round(interval)

calculateAdaptiveInterval(t) == AdaptiveInterval(updateChangeRate(t))

recordChange(t, changeType) ==
    updateChangeRate(
        [t EXCEPT !.changeHistory =
            SelectSeq(Append(@, [timestamp |-> now, type |-> changeType]),
                      InHistoryKept)])

engineNoClock == <<listings, cache, events, targets, activePolls, rateLimiters,
                   task, faults, polls, lastOk>>

IvTick ==
    /\ now + IvStep <= IvMaxTime
    /\ now' = now + IvStep
    /\ UNCHANGED <<engineNoClock, dispVars, ivVars, dfVars, extVars>>

\* pollTarget: target.recordChange(changes.length > 0 ? 'CHANGE' : 'NO_CHANGE')
IvRecordChange(changeType) ==
    /\ Len(ivIn.changeHistory) < MaxHistory
    /\ ivIn' = recordChange(ivIn, changeType)
    /\ UNCHANGED <<engineVars, dispVars, ivOut, dfVars, extVars>>

IvRecordFailure ==
    /\ ivIn.consecutiveFailures < FailureThreshold
    /\ ivIn' = recordFailure(ivIn)
    /\ UNCHANGED <<engineVars, dispVars, ivOut, dfVars, extVars>>

IvRecordSuccess ==
    /\ ivIn' = recordSuccess(ivIn)
    /\ ivIn' # ivIn
    /\ UNCHANGED <<engineVars, dispVars, ivOut, dfVars, extVars>>

\* runReconciliation sets an OPEN breaker to HALF_OPEN
IvHalfOpen ==
    /\ ivIn.circuitBreakerState = "OPEN"
    /\ ivIn' = [ivIn EXCEPT !.circuitBreakerState = "HALF_OPEN"]
    /\ UNCHANGED <<engineVars, dispVars, ivOut, dfVars, extVars>>

\* shouldPoll calls calculateAdaptiveInterval
IvCalculate ==
    /\ ivIn' = updateChangeRate(ivIn)
    /\ ivOut' = <<calculateAdaptiveInterval(ivIn)>>
    /\ UNCHANGED <<engineVars, dispVars, dfVars, extVars>>

InitInterval ==
    /\ now = 0
    /\ listings = <<>>
    /\ cache = <<>>
    /\ events = <<>>
    /\ targets = [t \in Targets |-> NewTarget]
    /\ activePolls = {}
    /\ rateLimiters = [d \in Domains |-> <<>>]
    /\ task = [w \in Workers |-> IdleTask]
    /\ faults = 0
    /\ polls = 0
    /\ lastOk = [t \in Targets |-> <<>>]
    /\ pass = <<>>
    /\ accepting = <<>>
    /\ delivered = <<>>
    /\ ivIn \in {NewPollingTarget(c) : c \in IntervalConfigs}
    /\ ivOut = <<>>
    /\ dfIn = <<>>
    /\ dfOut = <<>>
    /\ ExtUnused

NextInterval ==
    \/ IvTick
    \/ \E changeType \in ChangeTypes : IvRecordChange(changeType)
    \/ IvRecordFailure
    \/ IvRecordSuccess
    \/ IvHalfOpen
    \/ IvCalculate

SpecInterval == InitInterval /\ [][NextInterval]_vars

\* C8: for minInterval <= baseInterval <= maxInterval, stabilityBonus in (0,1]
\* and activityBoost >= 1, and any change rate, failure count and breaker state,
\* calculateAdaptiveInterval returns a value within [minInterval, maxInterval].
C8_IntervalWithinBounds ==
    ivOut # <<>> =>
        (ivIn.minInterval <= ivOut[1] /\ ivOut[1] <= ivIn.maxInterval)

\* a target without a change in the last hour, without failures, breaker CLOSED
QuietTarget(t) ==
    /\ t.currentChangeRate = 0
    /\ t.consecutiveFailures = 0
    /\ t.circuitBreakerState = "CLOSED"

\* C33: for a target with currentChangeRate = 0, no failures and a CLOSED
\* breaker, calculateAdaptiveInterval returns at least baseInterval.
C33_QuietNotShorter ==
    [][ (IvCalculate /\ QuietTarget(ivIn')) => ivOut'[1] >= ivIn'.baseInterval ]_vars

\* an entry of the last hour that records a poll which detected a change
RecentDetectedChange(change) == InHistoryWindow(change) /\ change.type = "CHANGE"

\* C34: after pollTarget has recorded a poll, currentChangeRate is the number
\* of polls of the last hour that detected at least one change.
C34_RateCountsChanges ==
    [][ (\E changeType \in ChangeTypes : IvRecordChange(changeType)) =>
            ivIn'.currentChangeRate =
                Len(SelectSeq(ivIn'.changeHistory, RecentDetectedChange)) ]_vars


----------------------------------------------------------------------------
(* DiffEngine round trip (specification SpecDiff) *)

DfIds == <<"a", "b">>
DfTitles == {Str(<<"a">>), Str(<<"A", " ">>), Undefined}
DfPrices == {Num(80), Num(100), Null}

\* scraped listings as parseWillhabenPage can format them
DfListings(id) ==
    { [id |-> id, title |-> t, description |-> Str(<<"a">>), price |-> p,
       condition |-> Str(<<"b">>), location |-> Str(<<"c">>)] :
        t \in DfTitles, p \in DfPrices }

\* snapshots: each id absent or present once
DfSnapshots ==
    { one \o two : one \in {<<>>} \cup {<<l>> : l \in DfListings(DfIds[1])},
                   two \in {<<>>} \cup {<<l>> : l \in DfListings(DfIds[2])} }

DfIdle == [pc |-> "start", canonical |-> <<>>, changes |-> <<>>]

\* detectChanges(snapshot, {}) and createCanonicalListing for each CREATED change,
\* as processChanges does; a constructor that throws ends the round trip
DfBuild ==
    /\ dfOut.pc = "start"
    /\ LET changes == detectChanges(dfIn, <<>>, "u1")
           made == [k \in 1..Len(changes) |->
                       createCanonicalListing(SeqById(dfIn, changes[k].listingId), "u1")]
       IN  dfOut' = IF \A k \in 1..Len(made) : made[k].ok
                    THEN [dfOut EXCEPT !.pc = "built",
                              !.canonical = [k \in 1..Len(made) |-> made[k].listing]]
                    ELSE [dfOut EXCEPT !.pc = "threw"]
    /\ UNCHANGED <<engineVars, dispVars, ivVars, extVars, dfIn>>

\* detectChanges on the same snapshot against the listings just built
DfDetect ==
    /\ dfOut.pc = "built"
    /\ dfOut' = [dfOut EXCEPT !.pc = "done",
                     !.changes = detectChanges(dfIn, dfOut.canonical, "u1")]
    /\ UNCHANGED <<engineVars, dispVars, ivVars, extVars, dfIn>>

InitDiff ==
    /\ now = 0
    /\ listings = <<>>
    /\ cache = <<>>
    /\ events = <<>>
    /\ targets = [t \in Targets |-> NewTarget]
    /\ activePolls = {}
    /\ rateLimiters = [d \in Domains |-> <<>>]
    /\ task = [w \in Workers |-> IdleTask]
    /\ faults = 0
    /\ polls = 0
    /\ lastOk = [t \in Targets |-> <<>>]
    /\ pass = <<>>
    /\ accepting = <<>>
    /\ delivered = <<>>
    /\ ivIn = <<>>
    /\ ivOut = <<>>
    /\ dfIn \in DfSnapshots
    /\ dfOut = DfIdle
    /\ ExtUnused

NextDiff ==
    \/ DfBuild
    \/ DfDetect

SpecDiff == InitDiff /\ [][NextDiff]_vars

\* C9: round trip. Building the canonical listings of a snapshot from an empty
\* canonical set and running detectChanges on the same snapshot against them
\* completes with an empty change set.
C9_RoundTrip ==
    /\ dfOut.pc # "threw"
    /\ dfOut.pc = "done" => dfOut.changes = <<>>


----------------------------------------------------------------------------
(* DiffEngine.compareListings on title changes (specification SpecTitle) *)

TitleTexts ==
    { <<"a">>, <<"b">>, <<"c">>, <<"a", " ", "b">>, <<"b", " ", "c">>,
      <<"a", " ", "b", " ", "c">>, <<"A", " ", " ", "b">>, <<"a", " ", "a">> }

\* a listing with the given title; the other tracked fields do not change
TitleListing(text) == [Scraped("a", 100) EXCEPT !.title = Str(text)]

\* detectChanges: compareListings(canonical, scraped) for a listing present in
\* both sets
DfCompare ==
    /\ dfOut = <<>>
    /\ dfOut' = <<compareListings(TitleListing(dfIn.old), TitleListing(dfIn.new))>>
    /\ UNCHANGED <<engineVars, dispVars, ivVars, extVars, dfIn>>

\* the next poll compares another pair of titles
DfAgain ==
    /\ dfOut # <<>>
    /\ dfOut' = <<>>
    /\ dfIn' \in [old : TitleTexts, new : TitleTexts]
    /\ UNCHANGED <<engineVars, dispVars, ivVars, extVars>>

InitTitle ==
    /\ now = 0
    /\ listings = <<>>
    /\ cache = <<>>
    /\ events = <<>>
    /\ targets = <<>>
    /\ activePolls = {}
    /\ rateLimiters = <<>>
    /\ task = <<>>
    /\ faults = 0
    /\ polls = 0
    /\ lastOk = <<>>
    /\ pass = <<>>
    /\ accepting = <<>>
    /\ delivered = <<>>
    /\ ivIn = <<>>
    /\ ivOut = <<>>
    /\ dfIn \in [old : TitleTexts, new : TitleTexts]
    /\ dfOut = <<>>
    /\ ExtUnused

NextTitle ==
    \/ DfCompare
    \/ DfAgain

SpecTitle == InitTitle /\ [][NextTitle]_vars

\* 1 - a, for a fraction a
ROneMinus(a) == <<a[2] - a[1], a[2]>>

\* C35: the significance of a title change between two strings is
\* 1 - similarity of the two normalized titles.
C35_TitleSignificance ==
    (dfOut # <<>> /\ dfOut[1] # <<>>) =>
        REq(dfOut[1][1].significance,
            ROneMinus(calculateSemanticSimilarity(dfIn.old, dfIn.new)))


----------------------------------------------------------------------------
(* CircuitBreaker class of the monitoring service (specification SpecBreaker) *)

CbThreshold == 5             \* new CircuitBreaker(5, 60000)
CbTimeout == 60              \* its timeout, seconds
CbSuccesses == 3             \* successes in HALF_OPEN that close the breaker
CbStep == 30                 \* clock step, seconds
CbMaxTime == 120             \* last clock value
MaxCalls == 8                \* execute calls made
Callers == {1, 2, 3}         \* performSmartMonitoringCheck invocations that can
                             \* overlap: the interval timer set by rescheduleJob
                             \* fires whether or not the previous check returned

NewBreaker ==
    [failures |-> 0, threshold |-> CbThreshold, timeout |-> CbTimeout,
     state |-> "CLOSED", nextAttempt |-> 0, successCount |-> 0]

onSuccess(b) ==
    IF b.state = "HALF_OPEN"
    THEN IF b.successCount + 1 >= CbSuccesses
         THEN [b EXCEPT !.successCount = @ + 1, !.state = "CLOSED", !.failures = 0]
         ELSE [b EXCEPT !.successCount = @ + 1]
    ELSE [b EXCEPT !.failures = IF @ > 0 THEN @ - 1 ELSE 0]

onFailure(b) ==
    IF b.failures + 1 >= b.threshold
    THEN [b EXCEPT !.failures = @ + 1, !.successCount = 0, !.state = "OPEN",
                   !.nextAttempt = now + b.timeout]
    ELSE [b EXCEPT !.failures = @ + 1, !.successCount = 0]

otherThanBreaker == <<listings, cache, events, targets, activePolls, rateLimiters,
                      task, faults, polls, lastOk, dispVars, ivVars, dfVars,
                      schedVars, rlLog, wh, life, storeOps, monitor, admin>>

CbTick ==
    /\ now + CbStep <= CbMaxTime
    /\ now' = now + CbStep
    /\ UNCHANGED <<otherThanBreaker, cbVars>>

\* execute(fn) up to `await fn()`: an OPEN breaker throws until nextAttempt and
\* then becomes HALF_OPEN; in every other case fn is called
Execute(c) ==
    /\ calls[c] = "idle"
    /\ cbHist.calls < MaxCalls
    /\ cbHist' = [cbHist EXCEPT !.calls = @ + 1]
    /\ IF breaker.state = "OPEN" /\ now < breaker.nextAttempt
       THEN UNCHANGED <<breaker, calls>>
       ELSE /\ breaker' = IF breaker.state = "OPEN"
                          THEN [breaker EXCEPT !.state = "HALF_OPEN", !.successCount = 0]
                          ELSE breaker
            /\ calls' = [calls EXCEPT ![c] = "running"]
    /\ UNCHANGED <<now, otherThanBreaker>>

\* fn() resolves: onSuccess
FnResolves(c) ==
    /\ calls[c] = "running"
    /\ calls' = [calls EXCEPT ![c] = "idle"]
    /\ breaker' = onSuccess(breaker)
    /\ cbHist' = [cbHist EXCEPT !.run = 0]
    /\ UNCHANGED <<now, otherThanBreaker>>

\* fn() rejects: onFailure, and the error is thrown on
FnRejects(c) ==
    /\ calls[c] = "running"
    /\ calls' = [calls EXCEPT ![c] = "idle"]
    /\ breaker' = onFailure(breaker)
    /\ cbHist' = [cbHist EXCEPT !.run = @ + 1]
    /\ UNCHANGED <<now, otherThanBreaker>>

InitBreaker ==
    /\ now = 0
    /\ listings = <<>>
    /\ cache = <<>>
    /\ events = <<>>
    /\ targets = [t \in Targets |-> NewTarget]
    /\ activePolls = {}
    /\ rateLimiters = [d \in Domains |-> <<>>]
    /\ task = [w \in Workers |-> IdleTask]
    /\ faults = 0
    /\ polls = 0
    /\ lastOk = [t \in Targets |-> <<>>]
    /\ pass = <<>>
    /\ accepting = <<>>
    /\ delivered = <<>>
    /\ ivIn = <<>>
    /\ ivOut = <<>>
    /\ dfIn = <<>>
    /\ dfOut = <<>>
    /\ breaker = NewBreaker
    /\ calls = [c \in Callers |-> "idle"]
    /\ cbHist = [run |-> 0, calls |-> 0]
    /\ SchedUnused
    /\ rlLog = <<>>
    /\ wh = <<>>
    /\ life = <<>>
    /\ LegacyUnused

NextBreaker ==
    \/ CbTick
    \/ \E c \in Callers : Execute(c)
    \/ \E c \in Callers : FnResolves(c)
    \/ \E c \in Callers : FnRejects(c)

SpecBreaker == InitBreaker /\ [][NextBreaker]_vars

\* C11: the breaker goes from CLOSED to OPEN exactly in the step in which the
\* number of consecutive failed calls (failures with no successful call in
\* between) reaches failureThreshold.
C11_OpensAtThreshold ==
    [][ (breaker.state = "CLOSED" /\ breaker'.state = "OPEN")
          <=> (breaker.state = "CLOSED" /\ cbHist.run < breaker.threshold
               /\ cbHist'.run >= breaker.threshold) ]_vars

\* C14: single probe. An execute call that arrives while the breaker is
\* HALF_OPEN and a wrapped call is still running is not admitted.
C14_SingleProbe ==
    [][ \A c \in Callers :
          (breaker.state = "HALF_OPEN" /\ calls[c] = "idle" /\ calls'[c] = "running")
              => \A d \in Callers \ {c} : calls[d] # "running" ]_vars


----------------------------------------------------------------------------
(* Rate-limit denial and the breaker (specification Spec) *)

\* C16: a rate-limit denial is not a circuit-breaker failure. When a poll that
\* checkRateLimit denied returns, the stored consecutiveFailures and
\* circuitBreakerState of its target are what they were.
C16_DenialIsNoFailure ==
    [][ \A t \in Targets :
          (task[t].pc = "saveTarget" /\ task[t].outcome = "denied"
           /\ task'[t].pc = "idle" /\ faults' = faults) =>
              /\ targets'[t].consecutiveFailures = targets[t].consecutiveFailures
              /\ targets'[t].circuitBreakerState = targets[t].circuitBreakerState
      ]_vars


----------------------------------------------------------------------------
(* Scheduler: ticks, forced polls, watchdog (specifications SpecSched and     *)
(* SpecSchedFair). A poll is its admission, its fetch and the saving of the   *)
(* target; what it does to listings and events is specification Spec's.      *)

SchedTargetSeq == <<"t1", "t2">>   \* rows of polling_targets, in rowid order
SchedTargets == {"t1", "t2"}
MaxConcurrentPolls == 1            \* config.maxConcurrentPolls
MaxTasks == 2                      \* pollTarget invocations that can be running
MaxSchedPolls == 3                 \* pollTarget invocations started
SchedStep == 300                   \* clock step, seconds
SchedMaxTime == 600                \* last clock value
StuckAfter == 300                  \* runHealthCheck drops polls older than 300000 ms
BackoffCap == 300                  \* canPollTarget waits at most 300000 ms
PollSlots == 1..MaxTasks

\* the constructor defaults of PollingTarget
DefaultConfig ==
    [minInterval |-> 60, baseInterval |-> 300, maxInterval |-> 3600,
     changeThreshold |-> 5, stabilityBonus |-> <<1, 2>>, activityBoost |-> <<2, 1>>]

\* a row of polling_targets; lastPolledAt is <<>> (null) or <<time>>
SchedTarget(id, failures, lastPolledAt) ==
    [id |-> id, enabled |-> TRUE, lastPolledAt |-> lastPolledAt]
        @@ [NewPollingTarget(DefaultConfig) EXCEPT !.consecutiveFailures = failures]

\* rows the program has written before: a new target, and a target whose last
\* four polls failed
SchedTargetRows(id) == {SchedTarget(id, 0, <<>>), SchedTarget(id, 4, <<0>>)}

\* recordSuccess and recordFailure also set lastPolledAt
Stamp(t) == [t EXCEPT !.lastPolledAt = <<now>>]

\* now - lastPoll >= seconds, where a null lastPolledAt reads as new Date(0)
SinceLastPoll(t, seconds) == t.lastPolledAt = <<>> \/ now - t.lastPolledAt[1] >= seconds

shouldPoll(t) == t.enabled /\ SinceLastPoll(t, calculateAdaptiveInterval(t))

RECURSIVE Pow2(_)
Pow2(n) == IF n = 0 THEN 1 ELSE 2 * Pow2(n - 1)

canPollTarget(t) ==
    IF t.circuitBreakerState = "OPEN" THEN FALSE
    ELSE IF t.consecutiveFailures > 0
    THEN LET wait == Pow2(t.consecutiveFailures)
         IN  SinceLastPoll(t, IF wait < BackoffCap THEN wait ELSE BackoffCap)
    ELSE TRUE

SchedIdle == [pc |-> "idle", target |-> "", tgt |-> <<>>, outcome |-> ""]

InWindow(ts) == now - ts < RateWindow

\* pollTarget(target) up to its first await, on the scheduler state st:
\* activePolls (active, start), rateLimiters (limiters), the running
\* invocations (task). blocked marks a run beyond MaxTasks or MaxSchedPolls.
pollTargetSync(st, target) ==
    IF target.id \in st.active THEN st
    ELSE IF st.started >= MaxSchedPolls \/ \A k \in PollSlots : st.task[k].pc # "idle"
    THEN [st EXCEPT !.blocked = TRUE]
    ELSE LET k == CHOOSE i \in PollSlots :
                      st.task[i].pc = "idle" /\ \A j \in 1..(i - 1) : st.task[j].pc # "idle"
             recent == SelectSeq(st.limiters, InWindow)
             allowed == Len(recent) < RequestsPerMinute
         IN  [st EXCEPT
                !.active = @ \cup {target.id},
                !.start = [t \in st.active \cup {target.id} |->
                              IF t = target.id THEN now ELSE st.start[t]],
                !.started = @ + 1,
                !.limiters = IF allowed THEN Append(recent, now) ELSE recent,
                !.task[k] =
                    IF allowed
                    THEN [pc |-> "fetch", target |-> target.id, tgt |-> target,
                          outcome |-> ""]
                    ELSE [pc |-> "save", target |-> target.id,
                          tgt |-> Stamp(recordFailure(target)), outcome |-> "denied"]]

\* processPollingQueue: while the queue is not empty and
\* activePolls.size < maxConcurrentPolls, shift a target and call pollTarget
RECURSIVE Drain(_)
Drain(st) ==
    IF st.queue = <<>> \/ Cardinality(st.active) >= MaxConcurrentPolls \/ st.blocked
    THEN st
    ELSE Drain(pollTargetSync([st EXCEPT !.queue = Tail(@)], Head(st.queue)))

SchedState ==
    [queue |-> pollingQueue, active |-> activePolls, start |-> pollStart,
     limiters |-> rateLimiters["willhaben.at"], task |-> task, started |-> polls,
     blocked |-> FALSE]

SchedSet(st) ==
    /\ pollingQueue' = st.queue
    /\ activePolls' = st.active
    /\ pollStart' = st.start
    /\ rateLimiters' = [rateLimiters EXCEPT !["willhaben.at"] = st.limiters]
    /\ task' = st.task
    /\ polls' = st.started

otherThanSched == <<listings, cache, events, faults, lastOk, dispVars, ivVars,
                    dfVars, cbVars, rlLog, wh, life, storeOps, monitor, admin>>

SchedClock ==
    /\ now + SchedStep <= SchedMaxTime
    /\ now' = now + SchedStep
    /\ UNCHANGED <<targets, activePolls, rateLimiters, task, polls, schedVars,
                   otherThanSched>>

\* processPollingQueue from the return of getAllPollingTargets to its end, had
\* its forEach pushed every due target without the pollingQueue.find test
PollingQueueStepNoFind ==
    LET present == SelectSeq(SchedTargetSeq, LAMBDA t : t \in DOMAIN targets)
        rows == [k \in 1..Len(present) |-> targets[present[k]]]
        due(t) == /\ shouldPoll(t)
                  /\ t.id \notin activePolls
                  /\ canPollTarget(t)
        st == Drain([SchedState EXCEPT !.queue = @ \o SelectSeq(rows, due)])
    IN  ~st.blocked /\ SchedSet(st)

\* processPollingQueue from the return of getAllPollingTargets to its end
PollingQueueStep ==
    LET present == SelectSeq(SchedTargetSeq, LAMBDA t : t \in DOMAIN targets)
        rows == [k \in 1..Len(present) |-> targets[present[k]]]
        due(t) == /\ shouldPoll(t)
                  /\ t.id \notin activePolls
                  /\ canPollTarget(t)
                  /\ \A q \in 1..Len(pollingQueue) : pollingQueue[q].id # t.id
        st == Drain([SchedState EXCEPT !.queue = @ \o SelectSeq(rows, due)])
    IN  ~st.blocked /\ SchedSet(st)

\* the polling timer fires and processPollingQueue runs
ProcessPollingQueue ==
    /\ PollingQueueStep
    /\ UNCHANGED <<now, targets, otherThanSched>>

\* ListenerSystem.forcePoll: getPollingTarget, then pollTarget
SchedForcePoll(t) ==
    /\ t \in DOMAIN targets
    /\ t \notin activePolls
    /\ LET st == pollTargetSync(SchedState, targets[t])
       IN  ~st.blocked /\ SchedSet(st)
    /\ UNCHANGED <<now, targets, otherThanSched>>

\* the fetch resolves: recordSuccess, recordChange, then await savePollingTarget
PollFetchOk(k) ==
    /\ task[k].pc = "fetch"
    /\ \E changeType \in ChangeTypes :
         task' = [task EXCEPT ![k] =
           [@ EXCEPT !.pc = "save", !.outcome = "success",
                     !.tgt = recordChange(Stamp(recordSuccess(@)), changeType)]]
    /\ UNCHANGED <<now, targets, activePolls, rateLimiters, polls, schedVars,
                   otherThanSched>>

\* the fetch rejects: recordFailure, then await savePollingTarget
PollFetchFails(k) ==
    /\ task[k].pc = "fetch"
    /\ task' = [task EXCEPT ![k] =
           [@ EXCEPT !.pc = "save", !.outcome = "failure",
                     !.tgt = Stamp(recordFailure(@))]]
    /\ UNCHANGED <<now, targets, activePolls, rateLimiters, polls, schedVars,
                   otherThanSched>>

\* savePollingTarget resolves; finally deletes the target id from activePolls
PollSaved(k) ==
    /\ task[k].pc = "save"
    /\ targets' = (task[k].target :> task[k].tgt) @@ targets
    /\ activePolls' = activePolls \ {task[k].target}
    /\ pollStart' = [t \in activePolls \ {task[k].target} |-> pollStart[t]]
    /\ task' = [task EXCEPT ![k] = SchedIdle]
    /\ UNCHANGED <<now, rateLimiters, polls, pollingQueue, otherThanSched>>

\* runHealthCheck: entries of activePolls older than five minutes are deleted;
\* the pollTarget invocation they belong to goes on
RunHealthCheck ==
    /\ LET stuck == {t \in activePolls : now - pollStart[t] > StuckAfter}
       IN  /\ stuck # {}
           /\ activePolls' = activePolls \ stuck
           /\ pollStart' = [t \in activePolls \ stuck |-> pollStart[t]]
    /\ UNCHANGED <<now, targets, rateLimiters, task, polls, pollingQueue,
                   otherThanSched>>

\* runReconciliation reaches a target whose breaker is OPEN: HALF_OPEN is saved
SchedReconcile(t) ==
    /\ targets[t].circuitBreakerState = "OPEN"
    /\ targets' = [targets EXCEPT ![t].circuitBreakerState = "HALF_OPEN"]
    /\ UNCHANGED <<now, activePolls, rateLimiters, task, polls, schedVars,
                   otherThanSched>>

InitSched ==
    /\ now = 0
    /\ listings = <<>>
    /\ cache = <<>>
    /\ events = <<>>
    /\ targets \in {f \in [SchedTargets -> UNION {SchedTargetRows(t) : t \in SchedTargets}] :
                       \A t \in SchedTargets : f[t].id = t}
    /\ activePolls = {}
    /\ rateLimiters = [d \in Domains |-> <<>>]
    /\ task = [k \in PollSlots |-> SchedIdle]
    /\ faults = 0
    /\ polls = 0
    /\ lastOk = <<>>
    /\ pass = <<>>
    /\ accepting = <<>>
    /\ delivered = <<>>
    /\ ivIn = <<>>
    /\ ivOut = <<>>
    /\ dfIn = <<>>
    /\ dfOut = <<>>
    /\ BreakerUnused
    /\ pollingQueue = <<>>
    /\ pollStart = <<>>
    /\ rlLog = <<>>
    /\ wh = <<>>
    /\ life = <<>>
    /\ LegacyUnused

NextSched ==
    \/ SchedClock
    \/ ProcessPollingQueue
    \/ \E t \in SchedTargets : SchedForcePoll(t)
    \/ \E k \in PollSlots : PollFetchOk(k)
    \/ \E k \in PollSlots : PollFetchFails(k)
    \/ \E k \in PollSlots : PollSaved(k)
    \/ RunHealthCheck
    \/ \E t \in SchedTargets : SchedReconcile(t)

SpecSched == InitSched /\ [][NextSched]_vars

\* Time passes, the polling timer keeps firing, every fetch and every save
\* returns. Forced polls and the reconciliation sweep are not required to happen.
SpecSchedFair ==
    /\ InitSched /\ [][NextSched]_vars
    /\ WF_vars(SchedClock)
    /\ WF_vars(ProcessPollingQueue)
    /\ \A k \in PollSlots : WF_vars(PollFetchOk(k) \/ PollFetchFails(k))
    /\ \A k \in PollSlots : WF_vars(PollSaved(k))


\* C12: while a target's breaker is OPEN the Scheduler starts no poll for it:
\* no step, tick or forced poll, takes a pollTarget invocation to the call of
\* the fetcher for a target whose row says OPEN.
C12_NoPollWhileOpen ==
    [][ \A k \in PollSlots :
          (task[k].pc = "idle" /\ task'[k].pc = "fetch")
              => targets[task'[k].target].circuitBreakerState # "OPEN" ]_vars

\* C17: the pollTarget invocations started and not finished never exceed
\* maxConcurrentPolls, whatever ticks, forced polls and the watchdog do.
C17_ConcurrencyCap ==
    Cardinality({k \in PollSlots : task[k].pc # "idle"}) <= MaxConcurrentPolls

QueuedAndDue ==
    \E q \in 1..Len(pollingQueue) :
        LET t == targets[pollingQueue[q].id]
        IN  shouldPoll(t) /\ canPollTarget(t) /\ t.id \notin activePolls

\* C32: the ready queue never holds two entries with the same target id.
C32_QueueHasNoDuplicates ==
    \A i, j \in 1..Len(pollingQueue) :
        i # j => pollingQueue[i].id # pollingQueue[j].id

C32_Witness == now > 0 /\ polls > 0 /\ QueuedAndDue

----------------------------------------------------------------------------
(* Scheduler.checkRateLimit on its own (specification SpecRate): calls for    *)
(* targets of a domain at chosen times, each call and its return value logged *)

RlStep == 20                 \* clock step, seconds
RlMaxTime == 120             \* last clock value
MaxRlCalls == 4              \* calls logged
RlLimits == {1, 2}           \* target.rateLimitPolicy.requestsPerMinute

\* checkRateLimit for a limiter whose requests are given; it returns a boolean
checkRateLimitAt(requests, limit) ==
    LET recent == SelectSeq(requests, InWindow)
    IN  IF Len(recent) >= limit
        THEN [requests |-> recent, result |-> FALSE]
        ELSE [requests |-> Append(recent, now), result |-> TRUE]

\* value.name for a JavaScript value: a boolean has no own properties
GetProp(value, name) == IF value \in BOOLEAN THEN Undefined ELSE value[name]

otherThanRate == <<listings, cache, events, targets, activePolls, task, faults,
                   polls, lastOk, dispVars, ivVars, dfVars, cbVars, schedVars, wh,
                   life, storeOps, monitor, admin>>

RlClock ==
    /\ now + RlStep <= RlMaxTime
    /\ now' = now + RlStep
    /\ UNCHANGED <<rateLimiters, rlLog, otherThanRate>>

\* one call checkRateLimit(target), target.domain = d, requestsPerMinute = limit
RlCall(d, limit) ==
    /\ Len(rlLog) < MaxRlCalls
    /\ LET r == checkRateLimitAt(rateLimiters[d], limit)
       IN  /\ rateLimiters' = [rateLimiters EXCEPT ![d] = r.requests]
           /\ rlLog' = Append(rlLog, [at |-> now, domain |-> d, limit |-> limit,
                                      result |-> r.result,
                                      retryAfter |-> GetProp(r.result, "retryAfter")])
    /\ UNCHANGED <<now, otherThanRate>>

InitRate ==
    /\ now = 0
    /\ listings = <<>>
    /\ cache = <<>>
    /\ events = <<>>
    /\ targets = <<>>
    /\ activePolls = {}
    /\ rateLimiters = [d \in Domains |-> <<>>]
    /\ task = <<>>
    /\ faults = 0
    /\ polls = 0
    /\ lastOk = <<>>
    /\ pass = <<>>
    /\ accepting = <<>>
    /\ delivered = <<>>
    /\ ivIn = <<>>
    /\ ivOut = <<>>
    /\ dfIn = <<>>
    /\ dfOut = <<>>
    /\ BreakerUnused
    /\ SchedUnused
    /\ rlLog = <<>>
    /\ wh = <<>>
    /\ life = <<>>
    /\ LegacyUnused

NextRate ==
    \/ RlClock
    \/ \E d \in Domains, limit \in RlLimits : RlCall(d, limit)

SpecRate == InitRate /\ [][NextRate]_vars

\* the calls before call i, for the same domain, that were allowed less than
\* 60 s before it
AdmittedBefore(i) ==
    {j \in 1..(i - 1) : /\ rlLog[j].domain = rlLog[i].domain
                        /\ rlLog[j].result
                        /\ rlLog[i].at - rlLog[j].at < RateWindow}

\* a call is allowed exactly when fewer than its limit were admitted in the
\* 60 s before it
RateCounting ==
    \A i \in 1..Len(rlLog) :
        rlLog[i].result <=> Cardinality(AdmittedBefore(i)) < rlLog[i].limit

\* C15: with perMinute = N, a call is allowed while fewer than N calls of the
\* domain were admitted in the last 60 s and denied otherwise, and a denial
\* carries a retryAfter that is a number greater than zero.
C15_RateLimit ==
    /\ RateCounting
    /\ \A i \in 1..Len(rlLog) :
          ~rlLog[i].result =>
              (IsNum(rlLog[i].retryAfter) /\ rlLog[i].retryAfter[2] > 0)

----------------------------------------------------------------------------
(* Claims on the event dispatcher (specification SpecDispatch)               *)

\* the events of a sequence of event ids
IdsOf(batch) == {batch[k] : k \in 1..Len(batch)}

\* C18: a failed delivery attempt leaves the event FAILED with its retryCount
\* exactly one higher than before the attempt.
C18_RetryCounted ==
    [][ \A k \in 1..Len(events) :
          (events[k].status # "FAILED" /\ events'[k].status = "FAILED")
              => events'[k].retryCount = events[k].retryCount + 1 ]_vars

\* C19: an event is claimed by at most one dispatcher pass at a time: two
\* passes that are running never hold the same event in their batches.
C19_ClaimExclusive ==
    \A p \in Passes : \A q \in Passes \ {p} :
        (pass[p].pc # "idle" /\ pass[q].pc # "idle")
            => IdsOf(pass[p].batch) \cap IdsOf(pass[q].batch) = {}

\* C39: PROCESSED is terminal: an event whose status is PROCESSED keeps it.
C39_ProcessedIsTerminal ==
    [][ \A k \in DOMAIN events :
            events[k].status = "PROCESSED" => events'[k].status = "PROCESSED" ]_vars

----------------------------------------------------------------------------
(* Webhook delivery and its signature (specification SpecWebhook)            *)

WebhookSecrets == {"", "k1", "k2"}   \* config.webhookSecret; "" is null
WhStep == 10                         \* clock step, seconds
WhMaxTime == 20                      \* last clock value
MaxSent == 2                         \* requests posted

\* JSON.stringify of an object given as its <<key, value>> pairs in insertion
\* order: the text as a sequence of tokens
stringify(obj) ==
    <<"{">> \o Flatten([k \in 1..Len(obj) |->
                (IF k > 1 THEN <<",">> ELSE <<>>) \o <<obj[k][1], ":", obj[k][2]>>])
            \o <<"}">>

\* crypto.createHmac('sha256', secret).update(text).digest('hex'), as an ideal
\* keyed digest: equal exactly for equal secret and text
Hmac(secret, text) == <<"hmac-sha256", secret, text>>

generateWebhookSignature(secret, payload) ==
    <<"sha256=", Hmac(secret, stringify(payload))>>

\* the payload deliverWebhook builds from an event
WebhookPayload(event) ==
    << <<"eventId", event.eventId>>, <<"eventType", event.eventType>>,
       <<"listingId", event.listingId>>, <<"source", event.source>>,
       <<"changedFields", event.changedFields>>,
       <<"fieldHashBefore", event.fieldHashBefore>>,
       <<"fieldHashAfter", event.fieldHashAfter>>,
       <<"detectedAt", event.detectedAt>>, <<"version", event.version>>,
       <<"confidence", event.confidence>>, <<"significance", event.significance>>,
       <<"metadata", <<>> >>, <<"timestamp", now>> >>

otherThanWebhook == <<listings, cache, targets, activePolls, rateLimiters, task,
                      faults, polls, lastOk, dispVars, ivVars, dfVars, cbVars,
                      schedVars, rlLog, life, storeOps, monitor, admin>>

WhClock ==
    /\ now + WhStep <= WhMaxTime
    /\ now' = now + WhStep
    /\ UNCHANGED <<events, wh, otherThanWebhook>>

\* deliverWebhook(event, subscriber): the payload, its signature when a secret
\* is configured, and the POST of the payload as the request body; status is
\* the endpoint's answer
DeliverWebhook(k, status) ==
    /\ k <= Len(events)
    /\ Len(wh.sent) < MaxSent
    /\ LET payload == WebhookPayload(events[k])
           signature == generateWebhookSignature(wh.secret, payload)
           posted == IF wh.secret # ""
                     THEN Append(payload, <<"signature", signature>>)
                     ELSE payload
       IN  wh' = [wh EXCEPT !.sent = Append(@,
                     [eventId |-> events[k].eventId, body |-> stringify(posted),
                      signature |-> IF wh.secret # "" THEN signature ELSE <<>>,
                      status |-> status])]
    /\ UNCHANGED <<now, events, otherThanWebhook>>

InitWebhook ==
    /\ now = 0
    /\ listings = <<>>
    /\ cache = <<>>
    /\ events = <<>>
    /\ targets = [t \in Targets |-> NewTarget]
    /\ activePolls = {}
    /\ rateLimiters = [d \in Domains |-> <<>>]
    /\ task = [w \in Workers |-> IdleTask]
    /\ faults = 0
    /\ polls = 0
    /\ lastOk = [t \in Targets |-> <<>>]
    /\ pass = <<>>
    /\ accepting = <<>>
    /\ delivered = <<>>
    /\ ivIn = <<>>
    /\ ivOut = <<>>
    /\ dfIn = <<>>
    /\ dfOut = <<>>
    /\ BreakerUnused
    /\ SchedUnused
    /\ rlLog = <<>>
    /\ wh \in [secret : WebhookSecrets, sent : {<<>>}]
    /\ life = <<>>
    /\ LegacyUnused

NextWebhook ==
    \/ WhClock
    \/ \E id \in ListingIds, eventType \in EventTypes : EmitEvent(id, eventType)
    \/ \E k \in 1..MaxEvents, status \in {200, 500} : DeliverWebhook(k, status)

SpecWebhook == InitWebhook /\ [][NextWebhook]_vars

\* C20: when a secret is configured, the signature sent with a delivery is
\* 'sha256=' followed by the HMAC-SHA256, under that secret, of exactly the
\* body the subscriber receives.
C20_SignatureSymmetry ==
    \A i \in 1..Len(wh.sent) :
        wh.secret # "" =>
            wh.sent[i].signature = <<"sha256=", Hmac(wh.secret, wh.sent[i].body)>>

----------------------------------------------------------------------------
(* Further claims on the polling engine (specification Spec)                  *)

\* the fullScan argument of the scrapeTarget call a worker makes: pollTarget
\* passes none, runReconciliation passes true
FullScan(w) == w = Recon

\* the largest element of a non-empty set of numbers
MaxOf(S) == CHOOSE n \in S : \A m \in S : m <= n

\* C21: at most one task at a time fetches, diffs and writes the state of a
\* target: the reconciliation sweep is never at work on a target while a
\* pollTarget invocation for that target is running.
C21_TargetExclusive ==
    \A t \in Targets :
        ~(task[t].pc # "idle" /\ task[Recon].pc # "idle" /\ task[Recon].target = t)

C28_StoreFailureFailsPoll ==
    [][ \A t \in Targets :
          (/\ task[t].pc = "finish"
           /\ Cardinality(task[t].wrote) < Len(task[t].changes)
           /\ task'[t].pc = "saveTarget")
              => task'[t].outcome # "success" ]_vars

----------------------------------------------------------------------------
(* Further claims on the CircuitBreaker class (specification SpecBreaker)     *)

\* C24: a call that fails while the breaker is HALF_OPEN returns it to OPEN,
\* however the execute calls overlap.
C24_HalfOpenFailureOpens ==
    [][ \A c \in Callers :
          (/\ breaker.state = "HALF_OPEN"
           /\ calls[c] = "running" /\ calls'[c] = "idle"
           /\ cbHist'.run = cbHist.run + 1)
              => breaker'.state = "OPEN" ]_vars

----------------------------------------------------------------------------
(* Further claims on the Scheduler (specification SpecSched)                  *)

\* C23: a HALF_OPEN target returns to CLOSED only after three consecutive
\* successful polls: the first successful poll after a failure leaves it
\* HALF_OPEN.
C23_ClosesAfterThreeSuccesses ==
    [][ \A k \in PollSlots :
          (/\ task[k].pc = "fetch"
           /\ task[k].tgt.circuitBreakerState = "HALF_OPEN"
           /\ task[k].tgt.consecutiveFailures > 0
           /\ task'[k].pc = "save" /\ task'[k].outcome = "success")
              => task'[k].tgt.circuitBreakerState = "HALF_OPEN" ]_vars

----------------------------------------------------------------------------
(* Scheduler life cycle (specifications SpecLife and SpecLifeFair): ticks     *)
(* split at their await, stop(), a target being disabled, a failing store.    *)
(* Every poll is started by a tick.                                           *)

MaxLifeFaults == 1           \* savePollingTarget calls that reject while connected
DrainDeadline == 30          \* waitForActivePolls gives up after 30000 ms

NewLife == [isRunning |-> TRUE, alive |-> TRUE, tick |-> "idle",
            connected |-> TRUE, stopAt |-> 0]

lifeRest == <<listings, cache, events, lastOk, dispVars, ivVars, dfVars, cbVars,
              rlLog, wh, storeOps, monitor, admin>>

\* the interval timer calls processPollingQueue: isRunning is tested, then
\* await getAllPollingTargets
TickBegin ==
    /\ life.alive /\ life.isRunning /\ life.tick = "idle"
    /\ life' = [life EXCEPT !.tick = "loading"]
    /\ UNCHANGED <<now, targets, activePolls, rateLimiters, task, polls, faults,
                   schedVars, lifeRest>>

\* getAllPollingTargets returns: the rest of processPollingQueue
TickResume ==
    /\ life.alive /\ life.tick = "loading"
    /\ PollingQueueStep
    /\ life' = [life EXCEPT !.tick = "idle"]
    /\ UNCHANGED <<now, targets, faults, lifeRest>>

\* Scheduler.stop up to await waitForActivePolls
StopBegin ==
    /\ life.alive /\ life.isRunning
    /\ life' = [life EXCEPT !.isRunning = FALSE, !.stopAt = now]
    /\ UNCHANGED <<now, targets, activePolls, rateLimiters, task, polls, faults,
                   schedVars, lifeRest>>

\* waitForActivePolls returns (activePolls empty, or cleared after the
\* deadline); stateStore.disconnect
StopFinish ==
    /\ life.alive /\ ~life.isRunning /\ life.connected
    /\ activePolls = {} \/ now - life.stopAt >= DrainDeadline
    /\ activePolls' = {}
    /\ pollStart' = <<>>
    /\ life' = [life EXCEPT !.connected = FALSE]
    /\ UNCHANGED <<now, targets, rateLimiters, task, polls, faults, pollingQueue,
                   lifeRest>>

\* Scheduler.updatePollingTarget(t, {enabled: false})
DisableTarget(t) ==
    /\ life.alive /\ life.connected
    /\ targets[t].enabled
    /\ targets' = [targets EXCEPT ![t].enabled = FALSE]
    /\ UNCHANGED <<now, activePolls, rateLimiters, task, polls, faults, schedVars,
                   life, lifeRest>>

LifePollSaved(k) == life.connected /\ PollSaved(k)

\* savePollingTarget rejects. In the try block: the catch records a failure and
\* saves again. In the catch block: finally deletes the target from activePolls
\* and the rejection leaves pollTarget, which processPollingQueue called
\* without await or catch: an unhandled rejection, on which Node 20 ends the
\* process
PollSaveFails(k) ==
    /\ task[k].pc = "save"
    /\ ~life.connected \/ faults < MaxLifeFaults
    /\ faults' = IF life.connected THEN faults + 1 ELSE faults
    /\ IF task[k].outcome # "failure"
       THEN /\ task' = [task EXCEPT ![k] =
                   [@ EXCEPT !.tgt = Stamp(recordFailure(@)), !.outcome = "failure"]]
            /\ UNCHANGED <<activePolls, schedVars, rateLimiters, life>>
       ELSE /\ task' = [j \in PollSlots |-> SchedIdle]
            /\ activePolls' = {}
            /\ pollStart' = <<>>
            /\ pollingQueue' = <<>>
            /\ rateLimiters' = [d \in Domains |-> <<>>]
            /\ life' = [life EXCEPT !.alive = FALSE, !.isRunning = FALSE,
                                    !.tick = "idle", !.connected = FALSE]
    /\ UNCHANGED <<now, targets, polls, lifeRest>>

InitLife ==
    /\ now = 0
    /\ listings = <<>>
    /\ cache = <<>>
    /\ events = <<>>
    /\ targets \in {f \in [SchedTargets -> UNION {SchedTargetRows(t) : t \in SchedTargets}] :
                       \A t \in SchedTargets : f[t].id = t}
    /\ activePolls = {}
    /\ rateLimiters = [d \in Domains |-> <<>>]
    /\ task = [k \in PollSlots |-> SchedIdle]
    /\ faults = 0
    /\ polls = 0
    /\ lastOk = <<>>
    /\ pass = <<>>
    /\ accepting = <<>>
    /\ delivered = <<>>
    /\ ivIn = <<>>
    /\ ivOut = <<>>
    /\ dfIn = <<>>
    /\ dfOut = <<>>
    /\ BreakerUnused
    /\ pollingQueue = <<>>
    /\ pollStart = <<>>
    /\ rlLog = <<>>
    /\ wh = <<>>
    /\ life = NewLife
    /\ LegacyUnused

NextLife ==
    \/ SchedClock
    \/ TickBegin
    \/ TickResume
    \/ StopBegin
    \/ StopFinish
    \/ \E t \in SchedTargets : DisableTarget(t)
    \/ \E k \in PollSlots : PollFetchOk(k)
    \/ \E k \in PollSlots : PollFetchFails(k)
    \/ \E k \in PollSlots : LifePollSaved(k)
    \/ \E k \in PollSlots : PollSaveFails(k)

SpecLife == InitLife /\ [][NextLife]_vars

\* every fetch and every save of a running poll returns
SpecLifeFair ==
    /\ InitLife /\ [][NextLife]_vars
    /\ \A k \in PollSlots : WF_vars(PollFetchOk(k) \/ PollFetchFails(k))
    /\ \A k \in PollSlots : WF_vars(LifePollSaved(k) \/ PollSaveFails(k))


\* C25: a target whose row has enabled = false is never fetched by a tick, a
\* target that was waiting in the queue when it was disabled included.
C25_DisabledNeverFetched ==
    [][ \A k \in PollSlots :
          (task[k].pc = "idle" /\ task'[k].pc = "fetch")
              => targets[task'[k].target].enabled ]_vars

\* C27: once stop() has been called no pollTarget invocation is started, not
\* even by a tick that was waiting for getAllPollingTargets at that moment.
C27_NoPollAfterStop ==
    [][ ~life.isRunning =>
          \A k \in PollSlots : task[k].pc = "idle" => task'[k].pc = "idle" ]_vars

\* every poll that has put its target into activePolls takes it out again
PollsRelease ==
    \A t \in SchedTargets : (t \in activePolls) ~> (t \notin activePolls)

\* C26: every poll task that starts eventually removes its target from the
\* active set, whatever fails in it, and no exception of a poll task ends the
\* process whose timer drives the ticks.
C26_FailureIsolation ==
    /\ PollsRelease
    /\ [](life.alive)

----------------------------------------------------------------------------
(* Two targets whose results share a listing id (specification SpecSources):  *)
(* forced polls of t1 (source u1) and t2 (source u2), no failures             *)

SrcTargets == {"t1", "t2"}

\* table listings when the store is opened: empty, or listing a stored for one
\* of the two sources (listing_id is the primary key)
SrcTables ==
    { <<>>,
      ("a" :> PersistedRow("a", "u1", 100)),
      ("a" :> PersistedRow("a", "u2", 100)) }

InitSources ==
    /\ now = 0
    /\ listings \in SrcTables
    /\ cache = <<>>
    /\ events = <<>>
    /\ targets = [t \in SrcTargets |-> NewTarget]
    /\ activePolls = {}
    /\ rateLimiters = [d \in Domains |-> <<>>]
    /\ task = [w \in SrcTargets |-> IdleTask]
    /\ faults = 0
    /\ polls = 0
    /\ lastOk = [t \in SrcTargets |-> <<>>]
    /\ pass = <<>>
    /\ accepting = <<>>
    /\ delivered = <<>>
    /\ ivIn = <<>>
    /\ ivOut = <<>>
    /\ dfIn = <<>>
    /\ dfOut = <<>>
    /\ ExtUnused

NextSources ==
    \/ Tick
    \/ \E t \in SrcTargets : ForcePoll(t)
    \/ \E t \in SrcTargets : Scrape(t)
    \/ \E t \in SrcTargets : LoadCanonical(t)
    \/ \E t \in SrcTargets : SaveEvent(t)
    \/ \E t \in SrcTargets : GetListing(t)
    \/ \E t \in SrcTargets : SaveListing(t)
    \/ \E t \in SrcTargets : FinishPoll(t)
    \/ \E t \in SrcTargets : SaveTarget(t)

SpecSources == InitSources /\ [][NextSources]_vars

\* the last poll of target t succeeded and its result contained listing id
SawListing(t, id) ==
    /\ task[t].pc = "idle"
    /\ lastOk[t] # <<>>
    /\ SeqHasId(lastOk[t][1], id)

\* table listings holds a canonical listing id for the source
HasCanonical(source, id) ==
    \E k \in DOMAIN listings : k = id /\ listings[k].source = source

\* C29: canonical listings are identified by (source, listingId): once the
\* last successful polls of both targets contained the same listing id, each
\* source has its own canonical listing with that id.
C29_ListingPerSource ==
    \A id \in ListingIds :
        (\A t \in SrcTargets : SawListing(t, id))
            => \A t \in SrcTargets : HasCanonical(Url(t), id)

----------------------------------------------------------------------------
(* StateStore.getListing and saveListing at the granularity of their awaits  *)
(* (specification SpecCache): callers that read a listing and save an        *)
(* updated copy of it, as processChanges does, their calls overlapping.      *)

StoreCallers == {1, 2}
MaxStoreCalls == 3    \* getListing / saveListing calls of one caller in a behaviour
StoreId == "a"

IdleStoreOp == [pc |-> "idle", arg |-> <<>>, held |-> <<>>, n |-> 0]

otherThanStore == <<now, events, targets, activePolls, rateLimiters, task, faults,
                    polls, lastOk, dispVars, ivVars, dfVars, cbVars, schedVars,
                    rlLog, wh, life, monitor, admin>>

\* getListing(listingId) is called: redis.get is sent
StoreGetListing(c) ==
    /\ storeOps[c].pc = "idle" /\ storeOps[c].n < MaxStoreCalls
    /\ storeOps' = [storeOps EXCEPT ![c].pc = "redisGet", ![c].n = @ + 1]
    /\ UNCHANGED <<listings, cache, otherThanStore>>

\* redis.get answers: a hit is returned through fromJSON, a miss sends the SELECT
StoreRedisGet(c) ==
    /\ storeOps[c].pc = "redisGet"
    /\ storeOps' = IF StoreId \in DOMAIN cache
                   THEN [storeOps EXCEPT ![c].pc = "idle",
                                         ![c].held = <<fromJSON(cache[StoreId])>>]
                   ELSE [storeOps EXCEPT ![c].pc = "dbGet"]
    /\ UNCHANGED <<listings, cache, otherThanStore>>

\* the callback of db.get: a row is converted, sent to Redis with setEx (not
\* awaited) and returned; no row returns null
StoreDbGet(c) ==
    /\ storeOps[c].pc = "dbGet"
    /\ IF StoreId \in DOMAIN listings
       THEN LET listing == rowToListing(listings[StoreId])
            IN  /\ cache' = (StoreId :> listing) @@ cache
                /\ storeOps' = [storeOps EXCEPT ![c].pc = "idle", ![c].held = <<listing>>]
       ELSE /\ cache' = cache
            /\ storeOps' = [storeOps EXCEPT ![c].pc = "idle", ![c].held = <<>>]
    /\ UNCHANGED <<listings, otherThanStore>>

\* the caller updates the listing it holds from a scraped one and calls
\* saveListing(listing): the INSERT OR REPLACE is sent
StoreSaveListing(c, price) ==
    /\ storeOps[c].pc = "idle" /\ storeOps[c].n < MaxStoreCalls
    /\ storeOps[c].held # <<>>
    /\ storeOps' = [storeOps EXCEPT
            ![c].pc = "dbRun", ![c].n = @ + 1,
            ![c].arg = <<updateCanonicalListing(storeOps[c].held[1],
                                                Scraped(StoreId, price))>>]
    /\ UNCHANGED <<listings, cache, otherThanStore>>

\* the INSERT OR REPLACE is done and its promise resolves: redis.setEx is sent
StoreDbRun(c) ==
    /\ storeOps[c].pc = "dbRun"
    /\ listings' = (StoreId :> ListingToRow(storeOps[c].arg[1])) @@ listings
    /\ storeOps' = [storeOps EXCEPT ![c].pc = "setEx"]
    /\ UNCHANGED <<cache, otherThanStore>>

\* redis.setEx is done: saveListing returns true
StoreRedisSetEx(c) ==
    /\ storeOps[c].pc = "setEx"
    /\ cache' = (StoreId :> storeOps[c].arg[1]) @@ cache
    /\ storeOps' = [storeOps EXCEPT ![c].pc = "idle", ![c].held = storeOps[c].arg,
                                    ![c].arg = <<>>]
    /\ UNCHANGED <<listings, otherThanStore>>

InitCache ==
    /\ now = 0
    /\ listings \in InitialTables
    /\ cache = <<>>
    /\ events = <<>>
    /\ targets = <<>>
    /\ activePolls = {}
    /\ rateLimiters = <<>>
    /\ task = <<>>
    /\ faults = 0
    /\ polls = 0
    /\ lastOk = <<>>
    /\ pass = <<>>
    /\ accepting = <<>>
    /\ delivered = <<>>
    /\ ivIn = <<>>
    /\ ivOut = <<>>
    /\ dfIn = <<>>
    /\ dfOut = <<>>
    /\ BreakerUnused /\ SchedUnused /\ rlLog = <<>> /\ wh = <<>> /\ life = <<>>
    /\ monitor = <<>> /\ admin = <<>>
    /\ storeOps = [c \in StoreCallers |-> IdleStoreOp]

NextCache ==
    \/ \E c \in StoreCallers : StoreGetListing(c)
    \/ \E c \in StoreCallers : StoreRedisGet(c)
    \/ \E c \in StoreCallers : StoreDbGet(c)
    \/ \E c \in StoreCallers, price \in Prices : StoreSaveListing(c, price)
    \/ \E c \in StoreCallers : StoreDbRun(c)
    \/ \E c \in StoreCallers : StoreRedisSetEx(c)

SpecCache == InitCache /\ [][NextCache]_vars

StoreQuiet == \A c \in StoreCallers : storeOps[c].pc = "idle"

----------------------------------------------------------------------------
(* Scheduler.removePollingTarget and updatePollingTarget while polls are in   *)
(* flight (specification SpecAdmin): one admin call at a time, split at its   *)
(* await; table polling_targets is a partial function.                        *)

MaxAdminCalls == 2    \* removePollingTarget / updatePollingTarget calls in a behaviour

\* removed: ids whose removePollingTarget has returned true; updated: ids whose
\* updatePollingTarget({enabled: false}) returned while a poll of them was running
IdleAdmin == [pc |-> "idle", target |-> "", held |-> <<>>, n |-> 0, removed |-> {},
              updated |-> {}]

PollInFlight(t) == \E k \in PollSlots : task[k].pc # "idle" /\ task[k].target = t

adminRest == <<listings, cache, events, faults, lastOk, dispVars, ivVars, dfVars,
               cbVars, rlLog, wh, life, storeOps, monitor>>

\* removePollingTarget(targetId) up to its await: the id is deleted from
\* activePolls and filtered out of pollingQueue, the DELETE is sent
RemoveBegin(t) ==
    /\ admin.pc = "idle" /\ admin.n < MaxAdminCalls
    /\ activePolls' = activePolls \ {t}
    /\ pollStart' = [x \in activePolls \ {t} |-> pollStart[x]]
    /\ pollingQueue' = SelectSeq(pollingQueue, LAMBDA q : q.id # t)
    /\ admin' = [admin EXCEPT !.pc = "remove", !.target = t, !.n = @ + 1]
    /\ UNCHANGED <<now, targets, rateLimiters, task, polls, adminRest>>

\* the DELETE is done: removePollingTarget returns true
RemoveFinish ==
    /\ admin.pc = "remove"
    /\ targets' = [x \in DOMAIN targets \ {admin.target} |-> targets[x]]
    /\ admin' = [admin EXCEPT !.pc = "idle", !.target = "",
                              !.removed = @ \cup {admin.target}]
    /\ UNCHANGED <<now, activePolls, rateLimiters, task, polls, schedVars, adminRest>>

\* updatePollingTarget(targetId, {enabled: false}): getPollingTarget returns the
\* row, the copy is changed and savePollingTarget is sent
UpdateBegin(t) ==
    /\ admin.pc = "idle" /\ admin.n < MaxAdminCalls
    /\ t \in DOMAIN targets
    /\ admin' = [admin EXCEPT !.pc = "update", !.target = t, !.n = @ + 1,
                              !.held = <<[targets[t] EXCEPT !.enabled = FALSE]>>]
    /\ UNCHANGED <<now, targets, activePolls, rateLimiters, task, polls, schedVars,
                   adminRest>>

\* the INSERT OR REPLACE is done: updatePollingTarget returns the target
UpdateFinish ==
    /\ admin.pc = "update"
    /\ targets' = (admin.target :> admin.held[1]) @@ targets
    /\ admin' = [admin EXCEPT !.pc = "idle", !.target = "", !.held = <<>>,
                    !.updated = IF PollInFlight(admin.target)
                                THEN @ \cup {admin.target} ELSE @]
    /\ UNCHANGED <<now, activePolls, rateLimiters, task, polls, schedVars, adminRest>>

InitAdmin ==
    /\ now = 0
    /\ listings = <<>>
    /\ cache = <<>>
    /\ events = <<>>
    /\ targets = [t \in SchedTargets |-> SchedTarget(t, 0, <<>>)]
    /\ activePolls = {}
    /\ rateLimiters = [d \in Domains |-> <<>>]
    /\ task = [k \in PollSlots |-> SchedIdle]
    /\ faults = 0
    /\ polls = 0
    /\ lastOk = <<>>
    /\ pass = <<>>
    /\ accepting = <<>>
    /\ delivered = <<>>
    /\ ivIn = <<>>
    /\ ivOut = <<>>
    /\ dfIn = <<>>
    /\ dfOut = <<>>
    /\ BreakerUnused
    /\ pollingQueue = <<>>
    /\ pollStart = <<>>
    /\ rlLog = <<>> /\ wh = <<>> /\ life = <<>> /\ storeOps = <<>> /\ monitor = <<>>
    /\ admin = IdleAdmin

NextAdmin ==
    \/ ProcessPollingQueue
    \/ \E t \in SchedTargets : SchedForcePoll(t)
    \/ \E k \in PollSlots : PollFetchOk(k)
    \/ \E k \in PollSlots : PollFetchFails(k)
    \/ \E k \in PollSlots : PollSaved(k)
    \/ \E t \in SchedTargets : RemoveBegin(t)
    \/ RemoveFinish
    \/ \E t \in SchedTargets : UpdateBegin(t)
    \/ UpdateFinish

SpecAdmin == InitAdmin /\ [][NextAdmin]_vars

\* C37: once removePollingTarget(id) has returned, a poll of the target that
\* finishes does not write the row of the target back.
C37_RemovedStaysAbsent ==
    [][ \A k \in PollSlots :
          (task[k].pc = "save" /\ task'[k].pc = "idle"
             /\ task[k].target \in admin.removed)
              => task[k].target \notin DOMAIN targets' ]_vars

\* C38: an updatePollingTarget({enabled: false}) that returned while a poll of the
\* target was running is still in effect when that poll has saved the target.
C38_UpdateNotLost ==
    [][ \A k \in PollSlots :
          (task[k].pc = "save" /\ task'[k].pc = "idle"
             /\ task[k].target \in admin.updated
             /\ task[k].target \in DOMAIN targets /\ ~targets[task[k].target].enabled)
              => ~targets'[task[k].target].enabled ]_vars

----------------------------------------------------------------------------
(* services/monitoring-service.js (specification SpecMonitor): the jobs map,   *)
(* the interval timers that are armed, and the checks in flight. A timer is a  *)
(* record [id, url]; intervalId 0 is null.                                     *)

MonUrls == {"u1", "u2"}
MaxTimerIds == 4      \* setInterval calls in a behaviour
MaxChecks == 2        \* performSmartMonitoringCheck invocations in flight for one URL

\* ended: history, whether a check of the URL ended while the URL had no job
NewMonitor ==
    [jobs |-> <<>>, armed |-> {}, checks |-> [u \in MonUrls |-> 0], timerIds |-> 0,
     ended |-> [u \in MonUrls |-> FALSE]]

clearInterval(m, intervalId) == [m EXCEPT !.armed = {t \in @ : t.id # intervalId}]

\* rescheduleJob without its clearInterval of the timer the job holds
rescheduleJobNoClear(m, normalizedUrl) ==
    IF normalizedUrl \notin DOMAIN m.jobs THEN m
    ELSE LET id == m.timerIds + 1
         IN  [m EXCEPT !.armed = @ \cup {[id |-> id, url |-> normalizedUrl]},
                       !.jobs[normalizedUrl].intervalId = id,
                       !.timerIds = id]

rescheduleJob(m, normalizedUrl) ==
    IF normalizedUrl \notin DOMAIN m.jobs THEN m
    ELSE LET job == m.jobs[normalizedUrl]
             cleared == IF job.intervalId # 0 THEN clearInterval(m, job.intervalId) ELSE m
             id == m.timerIds + 1
         IN  [cleared EXCEPT !.armed = @ \cup {[id |-> id, url |-> normalizedUrl]},
                             !.jobs[normalizedUrl].intervalId = id,
                             !.timerIds = id]

\* startMonitoring: the timer of a job already there is cleared, a new job
\* (intervalId null) replaces it
startMonitoring(m, normalizedUrl) ==
    LET cleared == IF normalizedUrl \in DOMAIN m.jobs
                   THEN clearInterval(m, m.jobs[normalizedUrl].intervalId) ELSE m
    IN  [cleared EXCEPT !.jobs = (normalizedUrl :> [intervalId |-> 0]) @@ @]

\* stopMonitoring for a URL that has a job (it returns true)
stopMonitoring(m, normalizedUrl) ==
    LET cleared == clearInterval(m, m.jobs[normalizedUrl].intervalId)
    IN  [cleared EXCEPT !.jobs = [u \in DOMAIN @ \ {normalizedUrl} |-> @[u]]]

\* performSmartMonitoringCheck up to its first await. Without a job it returns.
\* With the breaker OPEN execute rejects before the scrape is started and the
\* catch block calls rescheduleJob; otherwise the scrape is in flight.
beginCheck(m, normalizedUrl, open) ==
    IF normalizedUrl \notin DOMAIN m.jobs THEN m
    ELSE IF open THEN rescheduleJob(m, normalizedUrl)
    ELSE [m EXCEPT !.checks[normalizedUrl] = @ + 1]

\* the end of a check, fulfilled or rejected: rescheduleJob(normalizedUrl, ...)
endCheck(m, normalizedUrl) ==
    LET done == [m EXCEPT !.checks[normalizedUrl] = @ - 1,
                          !.ended[normalizedUrl] = @ \/ normalizedUrl \notin DOMAIN m.jobs]
    IN  rescheduleJob(done, normalizedUrl)

MonWithinBounds(m) ==
    /\ m.timerIds <= MaxTimerIds
    /\ \A u \in MonUrls : m.checks[u] <= MaxChecks

otherThanMonitor == <<now, listings, cache, events, targets, activePolls, rateLimiters,
                      task, faults, polls, lastOk, dispVars, ivVars, dfVars, cbVars,
                      schedVars, rlLog, wh, life, storeOps, admin>>

\* GET /startMonitoring: startMonitoring, then the initial check
MonStart(u, open) ==
    /\ LET m == beginCheck(startMonitoring(monitor, u), u, open)
       IN  MonWithinBounds(m) /\ monitor' = m
    /\ UNCHANGED otherThanMonitor

\* GET /stopMonitoring for a monitored URL
MonStop(u) ==
    /\ u \in DOMAIN monitor.jobs
    /\ monitor' = stopMonitoring(monitor, u)
    /\ UNCHANGED otherThanMonitor

\* an armed interval timer fires: performSmartMonitoringCheck(normalizedUrl)
MonTimerFires(id, u, open) ==
    /\ [id |-> id, url |-> u] \in monitor.armed
    /\ LET m == beginCheck(monitor, u, open)
       IN  MonWithinBounds(m) /\ monitor' = m
    /\ UNCHANGED otherThanMonitor

\* a check in flight comes to its end
MonCheckEnds(u) ==
    /\ monitor.checks[u] > 0
    /\ LET m == endCheck(monitor, u)
       IN  MonWithinBounds(m) /\ monitor' = m
    /\ UNCHANGED otherThanMonitor

InitMonitor ==
    /\ now = 0
    /\ listings = <<>>
    /\ cache = <<>>
    /\ events = <<>>
    /\ targets = <<>>
    /\ activePolls = {}
    /\ rateLimiters = <<>>
    /\ task = <<>>
    /\ faults = 0
    /\ polls = 0
    /\ lastOk = <<>>
    /\ pass = <<>>
    /\ accepting = <<>>
    /\ delivered = <<>>
    /\ ivIn = <<>>
    /\ ivOut = <<>>
    /\ dfIn = <<>>
    /\ dfOut = <<>>
    /\ BreakerUnused /\ SchedUnused /\ rlLog = <<>> /\ wh = <<>> /\ life = <<>>
    /\ storeOps = <<>> /\ admin = <<>>
    /\ monitor = NewMonitor

NextMonitor ==
    \/ \E u \in MonUrls, open \in BOOLEAN : MonStart(u, open)
    \/ \E u \in MonUrls : MonStop(u)
    \/ \E id \in 1..MaxTimerIds, u \in MonUrls, open \in BOOLEAN : MonTimerFires(id, u, open)
    \/ \E u \in MonUrls : MonCheckEnds(u)

SpecMonitor == InitMonitor /\ [][NextMonitor]_vars

ArmedFor(u) == {t \in monitor.armed : t.url = u}

\* C40: for every URL at most one interval timer is armed, and a URL without a
\* job (never started, or stopped) has no armed timer, whatever checks were in
\* flight when it was stopped.
C40_OneTimerPerUrl ==
    \A u \in MonUrls :
        /\ Cardinality(ArmedFor(u)) <= 1
        /\ u \notin DOMAIN monitor.jobs => ArmedFor(u) = {}

\* a check that was in flight when its URL was stopped has ended, and the other
\* URL is monitored with a check in flight beside its armed timer
C40_Witness ==
    \E u, v \in MonUrls :
        /\ u \notin DOMAIN monitor.jobs /\ monitor.ended[u] /\ monitor.checks[u] = 0
        /\ v \in DOMAIN monitor.jobs /\ ArmedFor(v) # {} /\ monitor.checks[v] > 0

====
